---------------------------- MODULE Spec2Model ----------------------------
(***************************************************************************)
(* Orchestration core of the PartSelect chat backend (backend/api.js):     *)
(* the circuit breaker around the two completion providers, the Redis      *)
(* session-context helpers and the request path through the orchestrator.  *)
(***************************************************************************)
EXTENDS Integers, Sequences, FiniteSets, TLC

(***************************************************************************)
(* Program constants                                                       *)
(***************************************************************************)
CIRCUIT_BREAKER_THRESHOLD == 3

CIRCUIT_BREAKER_RESET_TIME == 30000

\* redis.set(..., 'EX', 3600): lifetime of a stored context, in seconds
CONTEXT_TTL == 3600

(***************************************************************************)
(* Bounds of the model                                                     *)
(***************************************************************************)
NCalls == 2

TickMs == 10000

MaxTicks == 4

Calls == 1..NCalls

StartTime == CIRCUIT_BREAKER_RESET_TIME + TickMs

EndTime == StartTime + MaxTicks * TickMs

StoreTickMs == 1800000

MaxStoreTicks == 3

StoreEndTime == StartTime + MaxStoreTicks * StoreTickMs

Users == {"u1", "u2"}

VARIABLES
  circuitBreakerState,  \* module-level breaker state
  failureCount,         \* module-level failure counter
  lastFailureTime,      \* module-level timestamp of the last primary failure
  now,                  \* Date.now()
  calls,                \* the activations of callWithBreaker: position and event log
  failsSinceSuccess,    \* history: primary failures observed since the last provider success
  store,                \* Redis: per user the key context:<userId>, its text and expiry
  redisUp,              \* whether the Redis connection answers commands
  op,                   \* the last context helper that ran, with its result
  lastSet,              \* history: per user the last context written and when
  req,                  \* the activations of processQuery: position, arguments and locals
  started,              \* history: the number of calls made one after the other
  helper,               \* one application of a pure helper: its arguments and its result
  search,               \* the activation of searchProductDatabase and its retry loops
  conversations,        \* the table conversations: per user its rows, the id being the position
  chat,                 \* per user the activation of POST /api/chat: position and locals
  cache,                \* Redis: the keys product:<query> and compat:<part>:<model>
  populatedBy,          \* history: per cache entry what the lookup that wrote it returned
  check,                \* the activation of checkCompatibility: position and locals
  messageLog           \* the table messages: per user its rows in insertion order

breakerVars == <<circuitBreakerState, failureCount, lastFailureTime>>

breakerGroup == <<circuitBreakerState, failureCount, lastFailureTime, calls, failsSinceSuccess>>

storeGroup == <<store, redisUp, op, lastSet>>

cacheGroup == <<cache, populatedBy, check>>

otherGroup == <<started, helper, search, conversations, chat, cacheGroup, messageLog>>

chatGroup == <<conversations, chat>>

vars == <<circuitBreakerState, failureCount, lastFailureTime, now, calls, failsSinceSuccess,
          store, redisUp, op, lastSet, req, started, helper, search,
          conversations, chat, cache, populatedBy, check, messageLog>>

(***************************************************************************)
(* Helpers on the event log of one activation                              *)
(***************************************************************************)
Last(s) == s[Len(s)]

Count(s, e) == Cardinality({i \in 1..Len(s) : s[i] = e})

Has(s, e) == \E i \in 1..Len(s) : s[i] = e

Returned(c) ==
  /\ calls[c].pc = "idle"
  /\ calls[c].log # <<>>
  /\ Last(calls[c].log) \in {"primary_ok", "secondary_ok"}

Raised(c) ==
  /\ calls[c].pc = "idle"
  /\ calls[c].log # <<>>
  /\ ~ Returned(c)

FastFailed(c) == Raised(c) /\ Has(calls[c].log, "circuit_open")

(***************************************************************************)
(* callWithBreaker, cut at its awaits.  JavaScript runs each piece between *)
(* two awaits to completion, so each piece is one atomic action.           *)
(***************************************************************************)

WithinResetWindow_Seconds(elapsed) == elapsed < CIRCUIT_BREAKER_RESET_TIME \div 1000

WithinResetWindow_Inclusive(elapsed) == elapsed <= CIRCUIT_BREAKER_RESET_TIME

\* elapsed < CIRCUIT_BREAKER_RESET_TIME
WithinResetWindow(elapsed) == elapsed < CIRCUIT_BREAKER_RESET_TIME

BreakerEnter_SingleProbe(c) ==
  /\ IF circuitBreakerState = "OPEN"
       THEN IF WithinResetWindow(now - lastFailureTime)
              THEN /\ calls' = [calls EXCEPT ![c] = [pc |-> "idle", log |-> <<"circuit_open">>]]
                   /\ UNCHANGED circuitBreakerState
              ELSE /\ circuitBreakerState' = "HALF_OPEN"
                   /\ calls' = [calls EXCEPT ![c] =
                                  [pc |-> "primary", log |-> <<"half_open", "primary">>]]
       ELSE IF circuitBreakerState = "HALF_OPEN"
              THEN /\ calls' = [calls EXCEPT ![c] = [pc |-> "idle", log |-> <<"circuit_open">>]]
                   /\ UNCHANGED circuitBreakerState
              ELSE /\ calls' = [calls EXCEPT ![c] = [pc |-> "primary", log |-> <<"primary">>]]
                   /\ UNCHANGED circuitBreakerState
  /\ UNCHANGED <<failureCount, lastFailureTime, failsSinceSuccess>>

\* Entry of callWithBreaker up to the await of callDeepSeek (or the throw).
\* The log keeps what the function reports through logger: "circuit_open"
\* for the fast-fail, "half_open" for the probe transition.
BreakerEnter(c) ==
  /\ IF circuitBreakerState = "OPEN"
       THEN IF WithinResetWindow(now - lastFailureTime)
              THEN /\ calls' = [calls EXCEPT ![c] = [pc |-> "idle", log |-> <<"circuit_open">>]]
                   /\ UNCHANGED circuitBreakerState
              ELSE /\ circuitBreakerState' = "HALF_OPEN"
                   /\ calls' = [calls EXCEPT ![c] =
                                  [pc |-> "primary", log |-> <<"half_open", "primary">>]]
       ELSE /\ calls' = [calls EXCEPT ![c] = [pc |-> "primary", log |-> <<"primary">>]]
            /\ UNCHANGED circuitBreakerState
  /\ UNCHANGED <<failureCount, lastFailureTime, failsSinceSuccess>>

PrimaryOk_KeepsCount(c) ==
  /\ calls[c].pc = "primary"
  /\ circuitBreakerState' = "CLOSED"
  /\ calls' = [calls EXCEPT ![c] = [pc |-> "idle", log |-> Append(@.log, "primary_ok")]]
  /\ UNCHANGED <<failureCount, lastFailureTime, failsSinceSuccess>>

\* callDeepSeek resolved: reset the breaker and return the result.
PrimaryOk(c) ==
  /\ calls[c].pc = "primary"
  /\ failureCount' = 0
  /\ circuitBreakerState' = "CLOSED"
  /\ failsSinceSuccess' = 0
  /\ calls' = [calls EXCEPT ![c] = [pc |-> "idle", log |-> Append(@.log, "primary_ok")]]
  /\ UNCHANGED lastFailureTime

CountFailure_Saturating(n) == IF n >= CIRCUIT_BREAKER_THRESHOLD THEN n ELSE n + 1

\* failureCount++
CountFailure(n) == n + 1

Tripped_Late(n) == n > CIRCUIT_BREAKER_THRESHOLD

\* failureCount >= CIRCUIT_BREAKER_THRESHOLD
Tripped(n) == n >= CIRCUIT_BREAKER_THRESHOLD

PrimaryFail_Again(c) ==
  /\ calls[c].pc = "primary"
  /\ failureCount' = failureCount + 1
  /\ lastFailureTime' = now
  /\ circuitBreakerState' = IF failureCount + 1 >= CIRCUIT_BREAKER_THRESHOLD
                               THEN "OPEN" ELSE circuitBreakerState
  /\ failsSinceSuccess' = failsSinceSuccess + 1
  /\ calls' = [calls EXCEPT ![c] =
                 [pc |-> IF Len(@.log) < 6 THEN "primary" ELSE "secondary",
                  log |-> @.log \o <<"primary_failed", "primary">>]]

PrimaryFail_FirstFailureTime(c) ==
  /\ calls[c].pc = "primary"
  /\ failureCount' = failureCount + 1
  /\ lastFailureTime' = IF circuitBreakerState = "CLOSED" THEN now ELSE lastFailureTime
  /\ circuitBreakerState' = IF failureCount + 1 >= CIRCUIT_BREAKER_THRESHOLD
                               THEN "OPEN" ELSE circuitBreakerState
  /\ failsSinceSuccess' = failsSinceSuccess + 1
  /\ calls' = [calls EXCEPT ![c] =
                 [pc |-> "secondary", log |-> @.log \o <<"primary_failed", "secondary">>]]

PrimaryFail_NoFallbackWhenTripped(c) ==
  /\ calls[c].pc = "primary"
  /\ failureCount' = CountFailure(failureCount)
  /\ lastFailureTime' = now
  /\ circuitBreakerState' = IF Tripped(failureCount') THEN "OPEN" ELSE circuitBreakerState
  /\ failsSinceSuccess' = failsSinceSuccess + 1
  /\ calls' = [calls EXCEPT ![c] =
                 IF Tripped(failureCount')
                   THEN [pc |-> "idle", log |-> Append(@.log, "primary_failed")]
                   ELSE [pc |-> "secondary", log |-> @.log \o <<"primary_failed", "secondary">>]]

PrimaryFail_LostUpdate(c) ==
  /\ calls[c].pc = "primary"
  /\ failureCount' = IF \E d \in Calls \ {c} : calls[d].pc = "secondary"
                        THEN failureCount
                        ELSE CountFailure(failureCount)
  /\ lastFailureTime' = now
  /\ circuitBreakerState' = IF Tripped(failureCount') THEN "OPEN" ELSE circuitBreakerState
  /\ failsSinceSuccess' = failsSinceSuccess + 1
  /\ calls' = [calls EXCEPT ![c] =
                 [pc |-> "secondary", log |-> @.log \o <<"primary_failed", "secondary">>]]

\* callDeepSeek rejected (error, non-2xx or 12 s timeout): the catch block up
\* to the await of callOpenAI.
PrimaryFail(c) ==
  /\ calls[c].pc = "primary"
  /\ failureCount' = CountFailure(failureCount)
  /\ lastFailureTime' = now
  /\ circuitBreakerState' = IF Tripped(failureCount') THEN "OPEN" ELSE circuitBreakerState
  /\ failsSinceSuccess' = failsSinceSuccess + 1
  /\ calls' = [calls EXCEPT ![c] =
                 [pc |-> "secondary", log |-> @.log \o <<"primary_failed", "secondary">>]]

SecondaryOk_KeepsCount(c) ==
  /\ calls[c].pc = "secondary"
  /\ circuitBreakerState' = "CLOSED"
  /\ calls' = [calls EXCEPT ![c] = [pc |-> "idle", log |-> Append(@.log, "secondary_ok")]]
  /\ UNCHANGED <<failureCount, lastFailureTime, failsSinceSuccess>>

SecondaryOk_NoReset(c) ==
  /\ calls[c].pc = "secondary"
  /\ calls' = [calls EXCEPT ![c] = [pc |-> "idle", log |-> Append(@.log, "secondary_ok")]]
  /\ UNCHANGED <<circuitBreakerState, failureCount, lastFailureTime, failsSinceSuccess>>

\* callOpenAI resolved: reset the breaker and return the fallback.
SecondaryOk(c) ==
  /\ calls[c].pc = "secondary"
  /\ failureCount' = 0
  /\ circuitBreakerState' = "CLOSED"
  /\ failsSinceSuccess' = 0
  /\ calls' = [calls EXCEPT ![c] = [pc |-> "idle", log |-> Append(@.log, "secondary_ok")]]
  /\ UNCHANGED lastFailureTime

SecondaryFail_Counts(c) ==
  /\ calls[c].pc = "secondary"
  /\ calls' = [calls EXCEPT ![c] = [pc |-> "idle", log |-> Append(@.log, "secondary_failed")]]
  /\ failureCount' = failureCount + 1
  /\ lastFailureTime' = now
  /\ circuitBreakerState' = IF failureCount + 1 >= CIRCUIT_BREAKER_THRESHOLD
                               THEN "OPEN" ELSE circuitBreakerState
  /\ UNCHANGED failsSinceSuccess

\* callOpenAI rejected (error, non-2xx or 10 s timeout): rethrow.
SecondaryFail(c) ==
  /\ calls[c].pc = "secondary"
  /\ calls' = [calls EXCEPT ![c] = [pc |-> "idle", log |-> Append(@.log, "secondary_failed")]]
  /\ UNCHANGED <<circuitBreakerState, failureCount, lastFailureTime, failsSinceSuccess>>

(***************************************************************************)
(* Session contexts: JavaScript objects and their JSON text                *)
(***************************************************************************)
Null == "<null>"

Undefined == "<undefined>"

Slots == {"lastPart", "lastModel", "expecting", "lastIntent", "lastTopic"}

\* the object {}
EmptyContext == [k \in {} |-> Undefined]

\* context.k: a missing property reads as undefined
Slot(c, k) == IF k \in DOMAIN c THEN c[k] ELSE Undefined

\* JSON.stringify of an object: its members, without those whose value is undefined
JSONstringify(c) == {<<k, c[k]>> : k \in {j \in DOMAIN c : c[j] # Undefined}}

\* JSON.parse of such a text
JSONparse(text) ==
  [k \in {m[1] : m \in text} |-> CHOOSE v \in {m[2] : m \in text} : <<k, v>> \in text]

\* contexts the program writes: {} when a compatibility check resolves, the two
\* prompts of the compatibility agent, and merged contexts of routeToAgents
WrittenContexts ==
  { EmptyContext,
    [lastPart |-> "PS11752778", expecting |-> "model_number_for_compat",
     lastIntent |-> "compatibility_check"],
    [lastPart |-> Null, expecting |-> "model_number_for_compat",
     lastIntent |-> "compatibility_check"],
    [lastIntent |-> Undefined, lastTopic |-> Null],
    [lastPart |-> "PS11752778", expecting |-> Null,
     lastIntent |-> "product_search", lastTopic |-> "troubleshooting"] }

(***************************************************************************)
(* Utterances, histories and the pure helpers of the orchestrator.  An     *)
(* utterance is the sequence of its words; the content of a turn is the    *)
(* set of the substrings the program searches for that occur in it.        *)
(***************************************************************************)
\* /\b(PS\d{8})\b|\b(\d{8})\b/i
IsPartNumber(w) == w \in {"PS11752778", "ps11752778", "11752778"}

\* /[A-Z]{3}\d{3,7}[A-Z0-9]{3,}/i
IsModelNumber(w) == w \in {"WDT780SAEM1", "wdt780saem1"}

\* String.prototype.toUpperCase on the identifiers above
ToUpperCase(w) ==
  CASE w = "ps11752778" -> "PS11752778"
    [] w = "wdt780saem1" -> "WDT780SAEM1"
    [] OTHER -> w

\* value || fallback
Truthy(v) == v \notin {Null, Undefined, ""}

\* the pattern for a part number or for a model number
Matches(kind, w) == IF kind = "part" THEN IsPartNumber(w) ELSE IsModelNumber(w)

\* the first word of q that matches the pattern, upper-cased, or null
FirstMatch(q, kind) ==
  IF \E i \in 1..Len(q) : Matches(kind, q[i])
    THEN ToUpperCase(q[CHOOSE i \in 1..Len(q) :
                         Matches(kind, q[i]) /\ \A j \in 1..(i-1) : ~ Matches(kind, q[j])])
    ELSE Null

\* /^(should|would|do i|can i|is it|what if)/i
Questioning(q) ==
  /\ Len(q) > 0
  /\ \/ q[1] \in {"should", "would"}
     \/ Len(q) > 1 /\ <<q[1], q[2]>> \in {<<"do", "i">>, <<"can", "i">>, <<"is", "it">>, <<"what", "if">>}

NoTurn == [role |-> "none", content |-> {}]

LastTurns_First(h, n) == SubSeq(h, 1, IF Len(h) > n THEN n ELSE Len(h))

\* history.slice(-n)
LastTurns(h, n) == SubSeq(h, IF Len(h) > n THEN Len(h) - n + 1 ELSE 1, Len(h))

LastAssistant_First(h) ==
  IF \E i \in 1..Len(h) : h[i].role = "assistant"
    THEN h[CHOOSE i \in 1..Len(h) :
             h[i].role = "assistant" /\ \A j \in 1..(i-1) : h[j].role # "assistant"]
    ELSE NoTurn

\* history.slice().reverse().find(h => h.role === 'assistant')
LastAssistant(h) ==
  IF \E i \in 1..Len(h) : h[i].role = "assistant"
    THEN h[CHOOSE i \in 1..Len(h) :
             h[i].role = "assistant" /\ \A j \in (i+1)..Len(h) : h[j].role # "assistant"]
    ELSE NoTurn

getConversationContext_CompatibilityFirst(history) ==
  IF Len(history) = 0 THEN [stage |-> "initial", topic |-> Null]
  ELSE LET lastAssistant == LastAssistant(LastTurns(history, 5))
           content == lastAssistant.content
       IN IF lastAssistant = NoTurn THEN [stage |-> "initial", topic |-> Null]
          ELSE IF "compatible" \in content \/ "model" \in content
                 THEN [stage |-> "ongoing", topic |-> "compatibility"]
          ELSE IF "step" \in content \/ "troubleshoot" \in content
                 THEN [stage |-> "diagnostic_given", topic |-> "troubleshooting"]
          ELSE IF "install" \in content
                 THEN [stage |-> "ongoing", topic |-> "installation"]
          ELSE IF "part" \in content /\ "$" \in content
                 THEN [stage |-> "ongoing", topic |-> "product_recommendation"]
          ELSE [stage |-> "ongoing", topic |-> Null]

\* the flow analyzer of api.js: stage and topic from the last assistant turn
\* among the last five turns
getConversationContext(history) ==
  IF Len(history) = 0 THEN [stage |-> "initial", topic |-> Null]
  ELSE LET lastAssistant == LastAssistant(LastTurns(history, 5))
           content == lastAssistant.content
       IN IF lastAssistant = NoTurn THEN [stage |-> "initial", topic |-> Null]
          ELSE IF "step" \in content \/ "troubleshoot" \in content
                 THEN [stage |-> "diagnostic_given", topic |-> "troubleshooting"]
          ELSE IF "compatible" \in content \/ "model" \in content
                 THEN [stage |-> "ongoing", topic |-> "compatibility"]
          ELSE IF "install" \in content
                 THEN [stage |-> "ongoing", topic |-> "installation"]
          ELSE IF "part" \in content /\ "$" \in content
                 THEN [stage |-> "ongoing", topic |-> "product_recommendation"]
          ELSE [stage |-> "ongoing", topic |-> Null]

FastPath_RecentOnly(query, history) ==
  /\ Questioning(query)
  /\ LET lastAssistant == LastAssistant(LastTurns(history, 5))
     IN /\ lastAssistant # NoTurn
        /\ "step" \in lastAssistant.content \/ "troubleshoot" \in lastAssistant.content

\* the test of classify before it builds the prompt
FastPath(query, history) ==
  /\ Questioning(query)
  /\ LET lastAssistant == LastAssistant(history)
     IN /\ lastAssistant # NoTurn
        /\ "step" \in lastAssistant.content \/ "troubleshoot" \in lastAssistant.content

IntentTags ==
  {"product_search", "compatibility_check", "troubleshooting", "installation_help",
   "order_support", "general_question", "out_of_scope"}

\* context with slot k assigned
WithSlot(c, k, v) == [j \in DOMAIN c \cup {k} |-> IF j = k THEN v ELSE c[j]]

\* { ...context, lastIntent: intent.primary, lastTopic: flowContext.topic }
MergedContext(c, intent, flow) ==
  WithSlot(WithSlot(c, "lastIntent", intent.primary), "lastTopic", flow.topic)

\* inputs of the model
Queries ==
  { <<"hello">>,
    <<"should", "i", "call", "a", "technician">>,
    <<"PS11752778">>,
    <<"WDT780SAEM1">>,
    <<"where", "is", "my", "order">>,
    <<"checked", "broken">> }

UserTurn == [role |-> "user", content |-> {}]

Histories ==
  { <<>>,
    <<UserTurn, [role |-> "assistant", content |-> {"step", "Step 1:"}], UserTurn>>,
    <<UserTurn, [role |-> "assistant", content |-> {"model", "compatible"}], UserTurn>>,
    <<[role |-> "assistant", content |-> {"step"}],
      UserTurn, UserTurn, UserTurn, UserTurn, UserTurn>> }

(***************************************************************************)
(* Redis keys context:<userId> and the three context helpers               *)
(***************************************************************************)
ContextTtlMs_PX == CONTEXT_TTL

\* 'EX', 3600 in milliseconds
ContextTtlMs == CONTEXT_TTL * 1000

NoKey == [present |-> FALSE, text |-> {}, expireAt |-> 0]

\* a key answers until its expiry time is reached
RedisLive(u) == store[u].present /\ now < store[u].expireAt

\* redis.get: the text, or nil
RedisGet(u) ==
  IF RedisLive(u) THEN [nil |-> FALSE, text |-> store[u].text]
                  ELSE [nil |-> TRUE, text |-> {}]

\* data ? JSON.parse(data) : {}
ContextOf(data) == IF data.nil THEN EmptyContext ELSE JSONparse(data.text)

RedisSet_Merge(u, c) ==
  [store EXCEPT ![u] = [present |-> TRUE,
                        text |-> JSONstringify(c) \cup
                                   {m \in (RedisGet(u)).text : m[1] \notin DOMAIN c},
                        expireAt |-> now + ContextTtlMs]]

RedisSet_IfAbsent(u, c) ==
  IF RedisLive(u) THEN store
  ELSE [store EXCEPT ![u] = [present |-> TRUE, text |-> JSONstringify(c),
                             expireAt |-> now + ContextTtlMs]]

\* redis.set(key, JSON.stringify(context), 'EX', 3600)
RedisSet(u, c) ==
  [store EXCEPT ![u] = [present |-> TRUE, text |-> JSONstringify(c),
                        expireAt |-> now + ContextTtlMs]]

\* redis.del(key)
RedisDel(u) == [store EXCEPT ![u] = NoKey]

OpRecord(kind, u, c, raised, result) ==
  [kind |-> kind, user |-> u, arg |-> c, at |-> now, raised |-> raised, result |-> result]

\* getUserContext(userId): a rejected redis.get rejects the helper
getUserContext(u) ==
  /\ op' = IF redisUp THEN OpRecord("get", u, EmptyContext, FALSE, ContextOf(RedisGet(u)))
                      ELSE OpRecord("get", u, EmptyContext, TRUE, EmptyContext)
  /\ UNCHANGED <<store, redisUp, lastSet>>
  /\ UNCHANGED <<now, breakerGroup, req, otherGroup>>

\* setUserContext(userId, context)
setUserContext(u, c) ==
  /\ IF redisUp
       THEN /\ store' = RedisSet(u, c)
            /\ lastSet' = [lastSet EXCEPT ![u] = [set |-> TRUE, ctx |-> c, at |-> now]]
            /\ op' = OpRecord("set", u, c, FALSE, EmptyContext)
       ELSE /\ op' = OpRecord("set", u, c, TRUE, EmptyContext)
            /\ UNCHANGED <<store, lastSet>>
  /\ UNCHANGED redisUp
  /\ UNCHANGED <<now, breakerGroup, req, otherGroup>>

\* clearUserContext(userId)
clearUserContext(u) ==
  /\ IF redisUp
       THEN /\ store' = RedisDel(u)
            /\ lastSet' = [lastSet EXCEPT ![u] = [set |-> FALSE, ctx |-> EmptyContext, at |-> 0]]
            /\ op' = OpRecord("clear", u, EmptyContext, FALSE, EmptyContext)
       ELSE /\ op' = OpRecord("clear", u, EmptyContext, TRUE, EmptyContext)
            /\ UNCHANGED <<store, lastSet>>
  /\ UNCHANGED redisUp
  /\ UNCHANGED <<now, breakerGroup, req, otherGroup>>

\* the connection to Redis is lost, or comes back; the stored keys are Redis's
RedisGoesDown ==
  /\ redisUp
  /\ redisUp' = FALSE
  /\ UNCHANGED <<store, op, lastSet, now, breakerGroup, req, otherGroup>>

RedisComesBack ==
  /\ ~ redisUp
  /\ redisUp' = TRUE
  /\ UNCHANGED <<store, op, lastSet, now, breakerGroup, req, otherGroup>>

TickStore ==
  /\ now + StoreTickMs <= StoreEndTime
  /\ now' = now + StoreTickMs
  /\ UNCHANGED <<storeGroup, breakerGroup, req, otherGroup>>

(***************************************************************************)
(* processQuery: classify, routeToAgents, the handlers and formatResponse, *)
(* as the pieces that run between two awaits.  The operators below compute *)
(* the activation after such a piece; its pc names the await it stops at.  *)
(***************************************************************************)
Response(message, closing, products, hasActions, actions) ==
  [message |-> message, closing |-> closing, products |-> products,
   hasActions |-> hasActions, actions |-> actions]

NoResponse == Response("none", FALSE, "absent", FALSE, <<>>)

NoIntent == [primary |-> Undefined, confidence |-> 0, isFollowUp |-> FALSE]

IdleReq ==
  [pc |-> "idle", user |-> "u1", query |-> <<>>, history |-> <<>>, intent |-> NoIntent,
   context |-> EmptyContext, pending |-> EmptyContext, part |-> Null, model |-> Null,
   skip |-> FALSE, resp |-> NoResponse, metadata |-> NoIntent,
   outcome |-> "none", error |-> "none",
   rule |-> "none",    \* history: the continuation rule routeToAgents applied
   reply |-> "none"]   \* history: the kind of the last answer of a provider

\* the awaits of callWithBreaker
CallSites ==
  {"classify", "followup", "general", "install", "order", "ts_solution", "ts_analyze",
   "prod_extract", "prod_ai"}

\* what a provider may answer
Reply(kind, intent, closing, flagA, flagB) ==
  [kind |-> kind, intent |-> intent, closing |-> closing, flagA |-> flagA, flagB |-> flagB]

ClassifyReplies ==
  {Reply("object", [primary |-> p, confidence |-> 95, isFollowUp |-> FALSE], FALSE, FALSE, FALSE) :
     p \in IntentTags \cup {"refund_status"}}
  \cup {Reply("object", [primary |-> "general_question", confidence |-> 95, isFollowUp |-> TRUE],
              FALSE, FALSE, FALSE),
        Reply("object", [primary |-> "product_search", confidence |-> 95, isFollowUp |-> TRUE],
              FALSE, FALSE, FALSE),
        Reply("object", [primary |-> Undefined, confidence |-> 150, isFollowUp |-> FALSE],
              FALSE, FALSE, FALSE),
        Reply("null", NoIntent, FALSE, FALSE, FALSE),
        Reply("garbage", NoIntent, FALSE, FALSE, FALSE)}

TextReplies == {Reply("text", NoIntent, b, FALSE, FALSE) : b \in BOOLEAN}

\* flagA: the object names a model number (prod_extract) or parts (ts_analyze);
\* flagB: the object holds keywords (prod_extract)
ObjectReplies ==
  {Reply("object", NoIntent, c, a, b) : a, b, c \in BOOLEAN}
  \cup {Reply("null", NoIntent, FALSE, FALSE, FALSE), Reply("garbage", NoIntent, FALSE, FALSE, FALSE)}

RepliesAt(site) ==
  CASE site = "classify" -> ClassifyReplies
    [] site \in {"prod_extract", "ts_analyze"} -> ObjectReplies
    [] OTHER -> TextReplies

HasWord(q, ws) == \E i \in 1..Len(q) : q[i] \in ws

HasPair(q, ps) == \E i \in 1..(Len(q) - 1) : <<q[i], q[i+1]>> \in ps

shouldOfferCompletion_IgnoresPrompts(agentResponse) == agentResponse.closing

\* hasInputPrompt ? false : completionIndicators.some(i => message.includes(i))
shouldOfferCompletion(agentResponse) ==
  LET hasInputPrompt ==
        \E i \in 1..Len(agentResponse.actions) :
          agentResponse.actions[i] \in {"input_prompt", "button_group", "next_steps"}
  IN IF hasInputPrompt THEN FALSE ELSE agentResponse.closing

formatResponse_NoDefaults(agentResponse) ==
  [agentResponse EXCEPT
     !.actions = IF shouldOfferCompletion(agentResponse)
                   THEN Append(@, "conversation_completion") ELSE @]

\* products: agentResponse.products || [], actions: agentResponse.actions || [],
\* then the completion action is pushed when shouldOfferCompletion says so
formatResponse(agentResponse) ==
  [agentResponse EXCEPT
     !.products = IF @ = "absent" THEN "empty" ELSE @,
     !.hasActions = TRUE,
     !.actions = IF shouldOfferCompletion(agentResponse)
                   THEN Append(@, "conversation_completion") ELSE @]

\* processQuery is over: its locals are gone, the model keeps its arguments,
\* the classified intent and what it gave back
Over(rq) ==
  [IdleReq EXCEPT !.pc = "done", !.user = rq.user, !.query = rq.query, !.intent = rq.intent,
                  !.rule = rq.rule]

\* an exception leaves processQuery
Throw(rq, err) == [Over(rq) EXCEPT !.outcome = "raised", !.error = err]

\* routeToAgents returned: processQuery formats and returns
Finish(rq, agentResponse) ==
  [Over(rq) EXCEPT !.outcome = "response",
                   !.resp = formatResponse(agentResponse),
                   !.metadata = rq.intent]

\* the handler returned: routeToAgents awaits its last setUserContext
ToFinalSet(rq, agentResponse) ==
  [rq EXCEPT !.pc = "final_set", !.resp = agentResponse,
             !.pending = MergedContext(rq.context, rq.intent,
                                       getConversationContext(rq.history))]

\* ProductSearchAgent.search once the search parameters are known
AfterParams(rq, hasModel, searchable) ==
  IF ~ hasModel /\ ~ searchable
    THEN ToFinalSet(rq, Response("ask_model_for_search", TRUE, "empty", TRUE, <<"input_prompt">>))
    ELSE [rq EXCEPT !.pc = "prod_db"]

\* /\bPS\d{6,8}\b/i of extractSearchParams
IsPsNumber(w) == w \in {"PS11752778", "ps11752778"}

\* the catch of extractSearchParams: keywords are the words of the query
FallbackParams(rq) ==
  AfterParams(rq, FALSE, ~ HasPair(rq.query, {<<"find", "parts">>}))

\* ProductSearchAgent.search up to its first await
ProductSearch(rq) ==
  LET lastAssistant == LastAssistant(rq.history)
      fromHistory == /\ "search for parts" \in lastAssistant.content
                     /\ \E w \in lastAssistant.content : IsModelNumber(w)
      hasModel == \E i \in 1..Len(rq.query) : IsModelNumber(rq.query[i])
      hasPart == \E i \in 1..Len(rq.query) : IsPsNumber(rq.query[i])
      others == {i \in 1..Len(rq.query) :
                   ~ IsModelNumber(rq.query[i]) /\ ~ IsPsNumber(rq.query[i])}
  IN IF fromHistory THEN AfterParams(rq, TRUE, TRUE)
     ELSE IF hasModel \/ hasPart
            THEN AfterParams(rq, hasModel,
                             (hasModel \/ others # {})
                               /\ ~ HasPair(rq.query, {<<"find", "parts">>}))
     ELSE [rq EXCEPT !.pc = "prod_extract"]

\* extractFromHistory: the first identifier in the last 3 turns (the sample
\* histories hold at most one identifier of a kind)
HistoryMatch(h, kind) ==
  LET recent == LastTurns(h, 3)
      ids == {ToUpperCase(w) : w \in {x \in UNION {recent[i].content : i \in 1..Len(recent)} : Matches(kind, x)}}
  IN IF ids = {} THEN Null ELSE CHOOSE w \in ids : TRUE

\* CompatibilityAgent.check up to its await of getUserContext
CompatStart(rq) ==
  LET p == FirstMatch(rq.query, "part")
      m == FirstMatch(rq.query, "model")
      needHistory == ~ Truthy(p) \/ ~ Truthy(m)
  IN [rq EXCEPT !.part = IF Truthy(p) \/ ~ needHistory THEN p
                         ELSE HistoryMatch(rq.history, "part"),
                !.model = IF Truthy(m) \/ ~ needHistory THEN m
                          ELSE HistoryMatch(rq.history, "model"),
                !.pc = "compat_get"]

AskPrompt(message) == Response(message, FALSE, "absent", TRUE, <<"input_prompt">>)

\* CompatibilityAgent.check after getUserContext returned savedContext
CompatAfterGet(rq, savedContext) ==
  LET partNumber == IF ~ Truthy(rq.part) /\ Truthy(Slot(savedContext, "lastPart"))
                      THEN savedContext.lastPart ELSE rq.part
      modelNumber == IF ~ Truthy(rq.model) /\ Truthy(Slot(savedContext, "lastModel"))
                       THEN savedContext.lastModel ELSE rq.model
      asking == [lastPart |-> partNumber, expecting |-> "model_number_for_compat",
                 lastIntent |-> "compatibility_check"]
      known == [rq EXCEPT !.part = partNumber, !.model = modelNumber]
  IN IF Truthy(partNumber) /\ ~ Truthy(modelNumber)
       THEN [known EXCEPT !.pc = "compat_set_ask", !.pending = asking,
                          !.resp = AskPrompt("ask_model_for_compat")]
     ELSE IF ~ Truthy(partNumber) /\ Truthy(modelNumber)
       THEN [known EXCEPT !.pc = "compat_set_ask", !.pending = asking,
                          !.resp = AskPrompt("ask_part_for_compat")]
     ELSE IF ~ Truthy(partNumber) /\ ~ Truthy(modelNumber)
       THEN ToFinalSet(known, AskPrompt("ask_part_and_model"))
     ELSE [known EXCEPT !.pc = "compat_set_clear", !.pending = EmptyContext]

\* detectUserProgress(query, history).shouldSkipToSolution
ShouldSkipToSolution(query, history) ==
  /\ HasWord(query, {"checked", "tested", "tried", "inspected", "verified", "found",
                     "discovered"})
  /\ HasWord(query, {"broke", "broken", "damaged", "cracked", "leaking", "failed", "bad",
                     "worn"})
  /\ \E w \in LastAssistant(history).content : w \in {"Step 1:", "Troubleshooting Steps:"}

\* TroubleshootingAgent.diagnose up to its first await
Diagnose(rq) ==
  IF ShouldSkipToSolution(rq.query, rq.history)
    THEN [rq EXCEPT !.skip = TRUE, !.pc = "ts_solution"]
    ELSE [rq EXCEPT !.skip = FALSE, !.pc = "ts_analyze"]

\* the response of diagnose (or of provideSolution when skip is set)
DiagnoseResponse(rq, closing, products) ==
  IF rq.skip
    THEN Response("solution", rq.resp.closing, products, TRUE,
                  IF products = "some" THEN <<"product_cards", "next_steps">>
                                       ELSE <<"next_steps">>)
    ELSE Response("troubleshooting_guide", closing, products, TRUE,
                  <<"troubleshooting_wizard">>)

\* InstallationAgent.guide up to its first await; its prompt for the part
\* number contains the closing phrase "happy to help"
InstallationGuide(rq) ==
  IF \E i \in 1..Len(rq.query) : IsPartNumber(rq.query[i])
    THEN [rq EXCEPT !.pc = "install"]
    ELSE ToFinalSet(rq, Response("ask_part_for_install", TRUE, "absent", FALSE, <<>>))

\* OrderSupportAgent.assist up to its first await
OrderAssist(rq) ==
  IF HasWord(rq.query, {"track", "status", "shipped"}) \/ HasPair(rq.query, {<<"where", "is">>})
    THEN ToFinalSet(rq, AskPrompt("ask_order_number"))
  ELSE IF HasWord(rq.query, {"return", "refund"}) \/ HasPair(rq.query, {<<"send", "back">>})
    THEN ToFinalSet(rq, Response("return_policy", FALSE, "absent", TRUE, <<"button_group">>))
  ELSE IF HasWord(rq.query, {"shipping", "delivery"})
            \/ HasPair(rq.query, {<<"how", "long">>, <<"when", "will">>})
    THEN ToFinalSet(rq, Response("shipping_info", FALSE, "absent", FALSE, <<>>))
  ELSE [rq EXCEPT !.pc = "order"]

\* the switch of routeToAgents; this.handleOutOfScope is not defined, so the
\* default branch throws a TypeError
Dispatch(rq) ==
  CASE rq.intent.primary = "product_search" -> ProductSearch(rq)
    [] rq.intent.primary = "compatibility_check" -> CompatStart(rq)
    [] rq.intent.primary = "troubleshooting" -> Diagnose(rq)
    [] rq.intent.primary = "installation_help" -> InstallationGuide(rq)
    [] rq.intent.primary = "order_support" -> OrderAssist(rq)
    [] rq.intent.primary = "general_question" -> [rq EXCEPT !.pc = "general"]
    [] OTHER -> Throw(rq, "TypeError")

FollowUpApplies_GeneralOnly(intent, flowContext) ==
  intent.primary = "general_question" /\ intent.isFollowUp
    /\ flowContext.topic = "troubleshooting"

\* intent.entities?.isFollowUp && flowContext.topic === 'troubleshooting'
FollowUpApplies(intent, flowContext) ==
  intent.isFollowUp /\ flowContext.topic = "troubleshooting"

ExpectingCleared_Kept(context) == context

\* context.expecting = null
ExpectingCleared(context) == WithSlot(context, "expecting", Null)

\* routeToAgents after getUserContext returned context
RouteAfterGet(rq, context) ==
  LET flowContext == getConversationContext(rq.history)
      lastPart == Slot(context, "lastPart")
  IN IF FollowUpApplies(rq.intent, flowContext)
       THEN [rq EXCEPT !.context = context, !.pc = "followup", !.rule = "followup"]
     ELSE IF Slot(context, "expecting") = "model_number_for_compat"
       THEN [rq EXCEPT !.intent.primary = "compatibility_check",
                       !.query = IF Truthy(lastPart) THEN <<lastPart>> \o @ ELSE @,
                       !.context = ExpectingCleared(context),
                       !.pending = ExpectingCleared(context),
                       !.pc = "expect_set",
                       !.rule = "expecting"]
     ELSE Dispatch([rq EXCEPT !.context = context])

ParsedIntent_Unknown(reply) ==
  IF reply.kind = "garbage"
    THEN [primary |-> "out_of_scope", confidence |-> 0, isFollowUp |-> FALSE]
    ELSE reply.intent

\* try { return JSON.parse(response) } catch { return the default intent }
ParsedIntent(reply) ==
  IF reply.kind = "garbage"
    THEN [primary |-> "general_question", confidence |-> 50, isFollowUp |-> FALSE]
    ELSE reply.intent

\* the continuation of the await of callWithBreaker when it returns reply
OnReturn(rq, reply) ==
  LET text == Response("ai_text", reply.closing, "absent", FALSE, <<>>)
  IN CASE rq.pc = "classify" ->
            IF reply.kind = "null" THEN Throw(rq, "TypeError")
            ELSE [rq EXCEPT !.pc = "route_get", !.intent = ParsedIntent(reply)]
       [] rq.pc = "followup" -> Finish(rq, text)
       [] rq.pc = "general" -> ToFinalSet(rq, text)
       [] rq.pc = "order" -> ToFinalSet(rq, text)
       [] rq.pc = "install" ->
            ToFinalSet(rq, Response("install_instructions", reply.closing, "absent", TRUE,
                                    <<"installation_guide">>))
       [] rq.pc = "ts_solution" -> [rq EXCEPT !.pc = "ts_analyze", !.resp = text]
       [] rq.pc = "ts_analyze" ->
            IF reply.kind = "null" THEN Throw(rq, "TypeError")
            ELSE IF reply.kind = "object" /\ reply.flagA
              THEN [rq EXCEPT !.pc = "ts_parts",
                              !.resp = DiagnoseResponse(rq, reply.closing, "empty")]
            ELSE ToFinalSet(rq, DiagnoseResponse(rq, reply.kind = "object" /\ reply.closing,
                                                 "empty"))
       [] rq.pc = "prod_extract" ->
            IF reply.kind = "garbage" THEN FallbackParams(rq)
            ELSE IF reply.kind = "null"
              THEN ToFinalSet(rq, Response("having_trouble", FALSE, "empty", TRUE, <<>>))
            ELSE AfterParams(rq, reply.flagA, reply.flagB)
       [] rq.pc = "prod_ai" ->
            ToFinalSet(rq, Response("ai_suggestion", reply.closing, "empty", TRUE, <<>>))

\* the continuation of the await of callWithBreaker when it throws err; only
\* extractSearchParams and getAISuggestion catch it (the fallback text of the
\* latter contains the closing phrase "happy to help")
OnRaise(rq, err) ==
  CASE rq.pc = "prod_extract" -> FallbackParams(rq)
    [] rq.pc = "prod_ai" ->
         ToFinalSet(rq, Response("suggestion_fallback", TRUE, "empty", TRUE, <<>>))
    [] OTHER -> Throw(rq, err)

\* circuitBreakerState === "OPEN" && elapsed < CIRCUIT_BREAKER_RESET_TIME
FastFailNow == circuitBreakerState = "OPEN" /\ WithinResetWindow(now - lastFailureTime)

\* the end of a piece that made no completion call before: when it stops at
\* a call site, callWithBreaker is entered in the same piece
Advance(r, rq) ==
  IF rq.pc \in CallSites
    THEN /\ BreakerEnter(r)
         /\ req' = [req EXCEPT ![r] = IF FastFailNow THEN OnRaise(rq, "CircuitOpen") ELSE rq]
    ELSE /\ req' = [req EXCEPT ![r] = rq]
         /\ UNCHANGED breakerGroup

(***************************************************************************)
(* The pure helpers: getConversationContext and the message lists of the   *)
(* two providers                                                           *)
(***************************************************************************)
MaxHistory == 6

\* the turns the histories of this part are made of
Turns ==
  { UserTurn,
    [role |-> "assistant", content |-> {"step"}],
    [role |-> "assistant", content |-> {"model"}] }

BoundedHistories == UNION {[1..n -> Turns] : n \in 0..MaxHistory}

\* the words the rules of getConversationContext look for
RuleWords == {"step", "troubleshoot", "compatible", "model", "install", "part", "$"}

\* short histories whose assistant turn holds any combination of these words
RuleHistories ==
  UNION { { <<[role |-> "assistant", content |-> ws]>>,
            <<[role |-> "assistant", content |-> ws], UserTurn>>,
            <<[role |-> "assistant", content |-> {"step"}],
              [role |-> "assistant", content |-> ws]>> } : ws \in SUBSET RuleWords }

UserMessages == {{"hello"}, {"should", "i"}}

\* options.systemPrompt: absent, or the prompt of the caller
SystemPrompts == {Undefined, "SYSTEM_PROMPTS.troubleshooting"}

\* [ { role: 'system', content: systemPrompt }, ...history.slice(-5),
\*   { role: 'user', content: userMessage } ]
Messages(userMessage, history, systemPrompt, default) ==
  <<[role |-> "system", content |-> {IF systemPrompt = Undefined THEN default ELSE systemPrompt}]>>
    \o LastTurns(history, 5)
    \o <<[role |-> "user", content |-> userMessage]>>

DeepSeekMessages(userMessage, history, systemPrompt) ==
  Messages(userMessage, history, systemPrompt, "You are a helpful PartSelect agent")

OpenAIMessages(userMessage, history, systemPrompt) ==
  Messages(userMessage, history, systemPrompt, "SYSTEM_PROMPTS.default")

NoHelper ==
  [fn |-> "none", history |-> <<>>, userMessage |-> {}, systemPrompt |-> Undefined,
   flow |-> [stage |-> "none", topic |-> Null], messages |-> <<>>]

\* the arguments of one application
helperCalled(h, u, sp) ==
  /\ helper.fn = "none"
  /\ helper' = [NoHelper EXCEPT !.fn = "called", !.history = h, !.userMessage = u,
                                !.systemPrompt = sp]
  /\ UNCHANGED <<now, breakerGroup, storeGroup, req, cacheGroup, messageLog, started, search, chatGroup>>

conversationContextRead ==
  /\ helper.fn = "called"
  /\ helper' = [helper EXCEPT !.fn = "getConversationContext",
                              !.flow = getConversationContext(helper.history)]
  /\ UNCHANGED <<now, breakerGroup, storeGroup, req, cacheGroup, messageLog, started, search, chatGroup>>

deepSeekMessagesBuilt ==
  /\ helper.fn = "called"
  /\ helper' = [helper EXCEPT !.fn = "callDeepSeek",
                              !.messages = DeepSeekMessages(helper.userMessage, helper.history,
                                                            helper.systemPrompt)]
  /\ UNCHANGED <<now, breakerGroup, storeGroup, req, cacheGroup, messageLog, started, search, chatGroup>>

openAIMessagesBuilt ==
  /\ helper.fn = "called"
  /\ helper' = [helper EXCEPT !.fn = "callOpenAI",
                              !.messages = OpenAIMessages(helper.userMessage, helper.history,
                                                          helper.systemPrompt)]
  /\ UNCHANGED <<now, breakerGroup, storeGroup, req, cacheGroup, messageLog, started, search, chatGroup>>

NextHelpers ==
  \/ \E h \in BoundedHistories \cup RuleHistories, u \in UserMessages, sp \in SystemPrompts :
       helperCalled(h, u, sp)
  \/ conversationContextRead
  \/ deepSeekMessagesBuilt
  \/ openAIMessagesBuilt

(***************************************************************************)
(* retry and the lookups of searchProductDatabase it wraps                 *)
(***************************************************************************)
RETRIES == 3

RETRY_DELAY == 500

\* the two calls wrapped in retry: db.query on parts, axios.post to embeddings
RetrySites == {"db.query", "embeddings"}

\* what a lookup may throw
LookupErrors == {"ECONNRESET", "ETIMEDOUT"}

\* one activation of retry: the loop index, the invocations of fn, the time
\* spent in setTimeout, the errors fn threw, and how the activation stands
NoRun ==
  [i |-> 0, invoked |-> 0, waited |-> 0, errs |-> <<>>, outcome |-> "none", value |-> "none"]

IsLastAttempt_OffByOne(i) == i = RETRIES

\* i === retries - 1
IsLastAttempt(i) == i = RETRIES - 1

\* the loop test and, when it holds, the call of fn; when it fails the
\* function ends without a return value
retryAttempt(run, i) ==
  IF i < RETRIES
    THEN [run EXCEPT !.i = i, !.invoked = @ + 1, !.outcome = "pending"]
    ELSE [run EXCEPT !.i = i, !.outcome = "returned", !.value = Undefined]

\* return await fn()
retryReturn(run, v) == [run EXCEPT !.outcome = "returned", !.value = v]

\* the catch block: rethrow on the last attempt, else start the delay
retryCatch(run, err) ==
  IF IsLastAttempt(run.i)
    THEN [run EXCEPT !.errs = Append(@, err), !.outcome = "threw", !.value = err]
    ELSE [run EXCEPT !.errs = Append(@, err), !.outcome = "waiting",
                     !.waited = @ + RETRY_DELAY]

\* a JavaScript value the cached lookups handle: type says what it is and v
\* which one; a string tells in enc the type of the value it is the JSON text
\* of, "invalid" when it is no JSON text
Value(type, v) == [type |-> type, enc |-> "none", v |-> v]

Text(enc, v) == [type |-> "string", enc |-> enc, v |-> v]

NullValue == Value("null", "null")

SyntaxError == Value("SyntaxError", "none")

\* if (x)
TruthyValue(x) == x.type # "null" /\ ~ (x.type = "string" /\ x.v = "")

\* String(x), which JSON.parse applies to an argument that is not a string:
\* "" for [], "[object Object]" for an object and for an array of objects
StringOf(x) ==
  CASE x.type = "string" -> x
    [] x.type = "null" -> Text("null", "null")
    [] x.type = "array" /\ x.v = "empty" -> Text("invalid", "")
    [] OTHER -> Text("invalid", "[object Object]")

\* JSON.stringify(value) of an array or an object
JSONtext(x) == Text(x.type, x.v)

\* JSON.parse(x): the value the text encodes, or a SyntaxError
JSONvalue(x) ==
  LET s == StringOf(x)
  IN IF s.enc = "invalid" THEN SyntaxError ELSE Value(s.enc, s.v)

\* the (part, model) pairs whose compatibility is asked for
CheckedPairs == {<<"PS11752778", "WDT780SAEM1">>, <<"PS429868", "WDT780SAEM1">>}

\* `product:${params.part_number || params.keywords?.join('-') || 'unknown'}`
ProductKey(partNumber, keywords) ==
  [kind |-> "product",
   a |-> IF partNumber THEN "part_number" ELSE IF keywords THEN "keywords" ELSE "unknown",
   b |-> ""]

\* `compat:${partNumber}:${modelNumber}`
CompatKey(partNumber, modelNumber) == [kind |-> "compat", a |-> partNumber, b |-> modelNumber]

CacheKeys ==
  {ProductKey(p, k) : p, k \in BOOLEAN} \cup {CompatKey(pm[1], pm[2]) : pm \in CheckedPairs}

\* safeRedisGet(key): data ? JSON.parse(data) : null, and null when Redis
\* or the parse throws
safeRedisGet(key) ==
  IF ~ redisUp \/ ~ TruthyValue(cache[key]) THEN NullValue
  ELSE LET parsed == JSONvalue(cache[key])
       IN IF parsed.type = "SyntaxError" THEN NullValue ELSE parsed

\* redis.set(key, JSON.stringify(value), 'EX', ttl) on a connection that answers
RedisCacheSet(key, value) == [cache EXCEPT ![key] = JSONtext(value)]

\* safeRedisSet(key, value, ttl): the cache afterwards; a failure is swallowed
safeRedisSet(key, value) == IF redisUp THEN RedisCacheSet(key, value) ELSE cache

NoSearch ==
  [pc |-> "idle", partNumber |-> FALSE, keywords |-> FALSE,
   runs |-> [site \in RetrySites |-> NoRun], products |-> "none", caught |-> FALSE,
   key |-> ProductKey(FALSE, FALSE), hit |-> FALSE]

\* the retry activation the search is waiting for
SiteOf(pc) == IF pc \in {"db_call", "db_wait"} THEN "db.query" ELSE "embeddings"

\* the end of searchProductDatabase: safeRedisSet, which never throws, and
\* the return of the products
SearchDone(sr, products) == [sr EXCEPT !.pc = "done", !.products = products]

\* the catch of searchProductDatabase: return []
SearchCaught(sr) == [sr EXCEPT !.pc = "done", !.products = "empty", !.caught = TRUE]

\* after the part number lookup (or without one): the keyword lookup when
\* no product was found and there are keywords
AfterPartLookup(sr, products) ==
  IF products = "empty" /\ sr.keywords
    THEN [sr EXCEPT !.pc = "embed_call",
                    !.runs["embeddings"] = retryAttempt(NoRun, 0)]
    ELSE SearchDone(sr, products)

\* if (cached) return JSON.parse(cached): the parsed entry is returned, or
\* the SyntaxError lands in the catch of searchProductDatabase
SearchCacheHit(sr, cached) ==
  LET parsed == JSONvalue(cached)
  IN IF parsed.type = "SyntaxError"
       THEN [SearchCaught(sr) EXCEPT !.hit = TRUE]
       ELSE [SearchDone(sr, parsed.v) EXCEPT !.hit = TRUE]

\* safeRedisSet(cacheKey, products, 86400) at the end of a search that went
\* to the store and did not throw
productsCached ==
  LET written == search'.pc = "done" /\ ~ search'.hit /\ ~ search'.caught /\ redisUp
  IN /\ cache' = IF search'.pc = "done" /\ ~ search'.hit /\ ~ search'.caught
                   THEN safeRedisSet(search'.key, Value("array", search'.products))
                   ELSE cache
     /\ populatedBy' = IF written THEN [populatedBy EXCEPT ![search'.key] = search'.products]
                       ELSE populatedBy

\* searchProductDatabase(params) up to its first lookup, or to its return
\* when the cache answers
searchProductDatabase(partNumber, keywords) ==
  /\ search.pc \in {"idle", "done"}
  /\ LET sr == [NoSearch EXCEPT !.partNumber = partNumber, !.keywords = keywords,
                                !.key = ProductKey(partNumber, keywords)]
         cached == safeRedisGet(sr.key)
     IN search' = IF TruthyValue(cached) THEN SearchCacheHit(sr, cached)
                  ELSE IF partNumber
                    THEN [sr EXCEPT !.pc = "db_call",
                                    !.runs["db.query"] = retryAttempt(NoRun, 0)]
                  ELSE AfterPartLookup(sr, "empty")
  /\ productsCached
  /\ UNCHANGED <<now, breakerGroup, storeGroup, req, check, messageLog, started, helper, chatGroup>>

\* the wrapped call resolves: retry returns its result at once
lookupResolves(found) ==
  /\ search.pc \in {"db_call", "embed_call"}
  /\ LET site == SiteOf(search.pc)
         sr == [search EXCEPT !.runs[site] = retryReturn(@, IF found THEN "rows" ELSE "no rows")]
     IN search' = IF search.pc = "db_call"
                    THEN AfterPartLookup(sr, IF found THEN "some" ELSE "empty")
                    ELSE [sr EXCEPT !.pc = "vector"]
  /\ productsCached
  /\ UNCHANGED <<now, breakerGroup, storeGroup, req, check, messageLog, started, helper, chatGroup>>

\* the wrapped call rejects: retry waits, or rethrows into the catch of
\* searchProductDatabase
lookupRejects(err) ==
  /\ search.pc \in {"db_call", "embed_call"}
  /\ LET site == SiteOf(search.pc)
         run == retryCatch(search.runs[site], err)
         sr == [search EXCEPT !.runs[site] = run]
     IN search' = IF run.outcome = "threw" THEN SearchCaught(sr)
                  ELSE [sr EXCEPT !.pc = IF search.pc = "db_call" THEN "db_wait"
                                         ELSE "embed_wait"]
  /\ productsCached
  /\ UNCHANGED <<now, breakerGroup, storeGroup, req, check, messageLog, started, helper, chatGroup>>

\* setTimeout(r, delay) fires: the next turn of the loop
delayElapses ==
  /\ search.pc \in {"db_wait", "embed_wait"}
  /\ LET site == SiteOf(search.pc)
         run == retryAttempt(search.runs[site], search.runs[site].i + 1)
         sr == [search EXCEPT !.runs[site] = run]
     IN search' = IF run.outcome = "pending"
                    THEN [sr EXCEPT !.pc = IF search.pc = "db_wait" THEN "db_call"
                                           ELSE "embed_call"]
                  \* no value came back: result.rows or embedRes.data throws
                  ELSE SearchCaught(sr)
  /\ productsCached
  /\ UNCHANGED <<now, breakerGroup, storeGroup, req, check, messageLog, started, helper, chatGroup>>

\* the similarity query, which is not wrapped in retry, answers or throws
vectorQueryReplies(ok, found) ==
  /\ search.pc = "vector"
  /\ search' = IF ok THEN SearchDone(search, IF found THEN "some" ELSE "empty")
               ELSE SearchCaught(search)
  /\ productsCached
  /\ UNCHANGED <<now, breakerGroup, storeGroup, req, check, messageLog, started, helper, chatGroup>>

\* the 24 hours of an entry are over: Redis drops the key
cacheEntryExpires(k) ==
  /\ TruthyValue(cache[k])
  /\ cache' = [cache EXCEPT ![k] = NullValue]
  /\ populatedBy' = [populatedBy EXCEPT ![k] = "none"]
  /\ UNCHANGED <<check, search, messageLog>>
  /\ UNCHANGED <<now, breakerGroup, storeGroup, req, started, helper, chatGroup>>

NextSearch ==
  \/ \E partNumber, keywords \in BOOLEAN : searchProductDatabase(partNumber, keywords)
  \/ \E found \in BOOLEAN : lookupResolves(found)
  \/ \E err \in LookupErrors : lookupRejects(err)
  \/ delayElapses
  \/ \E ok, found \in BOOLEAN : vectorQueryReplies(ok, found)
  \/ \E k \in CacheKeys : cacheEntryExpires(k)
  \/ RedisGoesDown
  \/ RedisComesBack

(***************************************************************************)
(* CompatibilityAgent.checkCompatibility and its cache entries             *)
(***************************************************************************)
\* one activation: its arguments, whether the cache answered, what the two
\* queries found, and the object returned ("unable" being the one of the catch)
NoCheck ==
  [pc |-> "idle", partNumber |-> "none", modelNumber |-> "none", hit |-> FALSE,
   partFound |-> FALSE, isCompatible |-> FALSE, result |-> "none"]

\* the object built from the rows of the two queries
CompatResult(ch) ==
  IF ~ ch.partFound THEN "part_not_found"
  ELSE IF ch.isCompatible THEN "compatible" ELSE "not_compatible"

\* the catch of checkCompatibility: Unable to verify compatibility at this time
CheckCaught(ch) == [ch EXCEPT !.pc = "done", !.result = "unable"]

CheckDone(ch, result) == [ch EXCEPT !.pc = "done", !.result = result]

\* if (cached) return JSON.parse(cached)
CheckCacheHit(ch, cached) ==
  LET parsed == JSONvalue(cached)
  IN IF parsed.type = "SyntaxError"
       THEN [CheckCaught(ch) EXCEPT !.hit = TRUE]
       ELSE [CheckDone(ch, parsed.v) EXCEPT !.hit = TRUE]

\* checkCompatibility(partNumber, modelNumber) up to the query on parts, or
\* to its return when the cache answers
checkCompatibility(partNumber, modelNumber) ==
  /\ check.pc \in {"idle", "done"}
  /\ LET ch == [NoCheck EXCEPT !.partNumber = partNumber, !.modelNumber = modelNumber]
         cached == safeRedisGet(CompatKey(partNumber, modelNumber))
     IN check' = IF TruthyValue(cached) THEN CheckCacheHit(ch, cached)
                 ELSE [ch EXCEPT !.pc = "parts_query"]
  /\ UNCHANGED <<cache, populatedBy, search, messageLog>>
  /\ UNCHANGED <<now, breakerGroup, storeGroup, req, started, helper, chatGroup>>

\* SELECT id, name FROM parts answers with a row or none, or throws
partsQueryReplies(ok, found) ==
  /\ check.pc = "parts_query"
  /\ check' = IF ~ ok THEN CheckCaught(check)
               ELSE IF found THEN [check EXCEPT !.partFound = TRUE, !.pc = "compat_query"]
               ELSE [check EXCEPT !.pc = "cache_set"]
  /\ UNCHANGED <<cache, populatedBy, search, messageLog>>
  /\ UNCHANGED <<now, breakerGroup, storeGroup, req, started, helper, chatGroup>>

\* SELECT 1 FROM part_compatibility answers with a row or none, or throws
compatQueryReplies(ok, listed) ==
  /\ check.pc = "compat_query"
  /\ check' = IF ok THEN [check EXCEPT !.isCompatible = listed, !.pc = "cache_set"]
               ELSE CheckCaught(check)
  /\ UNCHANGED <<cache, populatedBy, search, messageLog>>
  /\ UNCHANGED <<now, breakerGroup, storeGroup, req, started, helper, chatGroup>>

\* the result is cached and returned: with safeRedisSet when the part was
\* found, with a bare redis.set, whose rejection lands in the catch, when not
resultCached ==
  /\ check.pc = "cache_set"
  /\ LET key == CompatKey(check.partNumber, check.modelNumber)
         result == CompatResult(check)
     IN /\ check' = IF check.partFound \/ redisUp THEN CheckDone(check, result)
                     ELSE CheckCaught(check)
        /\ cache' = IF check.partFound THEN safeRedisSet(key, Value("object", result))
                     ELSE IF redisUp THEN RedisCacheSet(key, Value("object", result))
                     ELSE cache
        /\ populatedBy' = IF redisUp THEN [populatedBy EXCEPT ![key] = result]
                           ELSE populatedBy
  /\ UNCHANGED <<search, messageLog>>
  /\ UNCHANGED <<now, breakerGroup, storeGroup, req, started, helper, chatGroup>>

\* the lookups that go through the cache, with a store that answers
NextCache ==
  \/ \E partNumber, keywords \in BOOLEAN : searchProductDatabase(partNumber, keywords)
  \/ \E found \in BOOLEAN : lookupResolves(found)
  \/ \E ok, found \in BOOLEAN : vectorQueryReplies(ok, found)
  \/ \E k \in CacheKeys : cacheEntryExpires(k)
  \/ RedisGoesDown
  \/ RedisComesBack
  \/ \E pm \in CheckedPairs : checkCompatibility(pm[1], pm[2])
  \/ \E ok, found \in BOOLEAN : partsQueryReplies(ok, found)
  \/ \E ok, listed \in BOOLEAN : compatQueryReplies(ok, listed)
  \/ resultCached

(***************************************************************************)
(* POST /api/chat up to the processing of the utterance, and the interval  *)
(* that ends idle conversations                                            *)
(***************************************************************************)
IDLE_TIMEOUT_MIN == 5

ChatTickMs == 150000

MaxChatTicks == 4

ChatEndTime == StartTime + MaxChatTicks * ChatTickMs

\* the sessions that send chat requests in the model
ChatUsers == {"u1"}

\* the requests of one session that can be in flight together
ChatTasks == {1, 2}

\* the rows a session may have in messages when a request is accepted
MaxLogRows == 4

\* req.body.message: a string as its tokens, " " being white space
RawMessages == {<<>>, <<" ">>, <<" ", "hi", " ">>}

RECURSIVE TrimStart(_)
TrimStart(m) == IF m # <<>> /\ Head(m) = " " THEN TrimStart(Tail(m)) ELSE m

RECURSIVE TrimEnd(_)
TrimEnd(m) ==
  IF m # <<>> /\ m[Len(m)] = " " THEN TrimEnd(SubSeq(m, 1, Len(m) - 1)) ELSE m

\* message.trim()
Trim(m) == TrimEnd(TrimStart(m))

NoChat ==
  [pc |-> "idle", selected |-> 0, at |-> 0, turnover |-> FALSE, convId |-> 0,
   outcome |-> "none", message |-> <<>>]

\* WHERE user_id = $1 AND (status = 'active' OR status IS NULL)
\* ORDER BY last_activity_at DESC LIMIT 1: the id of the row, 0 for no row
LatestActive(rows) ==
  LET active == {i \in 1..Len(rows) : rows[i].status = "active"}
  IN IF active = {} THEN 0
     ELSE CHOOSE i \in active :
            \A j \in active : rows[j].last_activity_at <= rows[i].last_activity_at

TimedOut_Inclusive(idleMs) == idleMs >= IDLE_TIMEOUT_MIN * 60000

\* (now - new Date(last_activity_at)) / 60000 > 5
TimedOut(idleMs) == idleMs > IDLE_TIMEOUT_MIN * 60000

\* NOW() - last_activity_at > INTERVAL '5 minutes'
CleanupDue(idleMs) == idleMs > 5 * 60000

\* an exception reaches the catch of the route: HTTP 500
ChatFailed(ch) == [ch EXCEPT !.pc = "done", !.outcome = "error"]

\* res.status(400).json({error: 'Message is required'})
ChatRejected == [NoChat EXCEPT !.pc = "done", !.outcome = "rejected"]

\* a row of messages
MessageRow(convId, sender, content) ==
  [conversation_id |-> convId, sender |-> sender, content |-> content]

\* the route is entered: the message is trimmed, an empty one is answered
\* with 400, any other makes the route await its SELECT
chatRequest(u, a, raw) ==
  /\ chat[u][a].pc \in {"idle", "done"}
  /\ LET message == Trim(raw)
     IN IF message = <<>>
          THEN chat' = [chat EXCEPT ![u][a] = ChatRejected]
          ELSE /\ Len(messageLog[u]) + 2 <= MaxLogRows
               /\ chat' = [chat EXCEPT ![u][a] =
                             [NoChat EXCEPT !.pc = "select", !.message = message]]
  /\ UNCHANGED <<now, breakerGroup, storeGroup, req, cacheGroup, messageLog, started, helper,
                 search, conversations>>

\* the SELECT answers; the route reads the clock and takes its branch
conversationSelected(u, a) ==
  /\ chat[u][a].pc = "select"
  /\ LET id == LatestActive(conversations[u])
         turnover == id = 0 \/ TimedOut(now - conversations[u][id].last_activity_at)
     IN chat' = [chat EXCEPT ![u][a] =
                   [@ EXCEPT !.selected = id, !.at = now, !.turnover = turnover,
                             !.pc = IF ~ turnover THEN "touch"
                                    ELSE IF id # 0 THEN "end_old" ELSE "clear"]]
  /\ UNCHANGED <<now, breakerGroup, storeGroup, req, cacheGroup, messageLog, started, helper,
                 search, conversations>>

\* UPDATE conversations SET status = 'ended' WHERE id = $1
oldConversationEnded(u, a) ==
  /\ chat[u][a].pc = "end_old"
  /\ conversations' = [conversations EXCEPT ![u][chat[u][a].selected].status = "ended"]
  /\ chat' = [chat EXCEPT ![u][a].pc = "clear"]
  /\ UNCHANGED <<now, breakerGroup, storeGroup, req, cacheGroup, messageLog, started, helper,
                 search>>

\* await clearUserContext(userId): redis.del, or its rejection
contextCleared(u, a) ==
  /\ chat[u][a].pc = "clear"
  /\ IF redisUp
       THEN /\ store' = RedisDel(u)
            /\ chat' = [chat EXCEPT ![u][a].pc = "insert"]
       ELSE /\ chat' = [chat EXCEPT ![u][a] = ChatFailed(@)]
            /\ UNCHANGED store
  /\ UNCHANGED <<now, breakerGroup, redisUp, op, lastSet, req, cacheGroup, messageLog, started,
                 helper, search, conversations>>

\* INSERT INTO conversations (user_id, status) VALUES ($1, 'active') RETURNING id;
\* last_activity_at defaults to NOW()
conversationInserted(u, a) ==
  /\ chat[u][a].pc = "insert"
  /\ conversations' = [conversations EXCEPT ![u] =
                         Append(@, [status |-> "active", last_activity_at |-> now])]
  /\ chat' = [chat EXCEPT ![u][a] = [@ EXCEPT !.convId = Len(conversations[u]) + 1,
                                              !.pc = "store_user"]]
  /\ UNCHANGED <<now, breakerGroup, storeGroup, req, cacheGroup, messageLog, started, helper,
                 search>>

\* UPDATE conversations SET last_activity_at = NOW() WHERE id = $1
conversationTouched(u, a) ==
  /\ chat[u][a].pc = "touch"
  /\ conversations' = [conversations EXCEPT ![u][chat[u][a].selected].last_activity_at = now]
  /\ chat' = [chat EXCEPT ![u][a] = [@ EXCEPT !.convId = chat[u][a].selected,
                                              !.pc = "store_user"]]
  /\ UNCHANGED <<now, breakerGroup, storeGroup, req, cacheGroup, messageLog, started, helper,
                 search>>

\* step 3: INSERT INTO messages (conversation_id, sender, content) VALUES
\* ($1, 'user', $2)
userMessageStored(u, a) ==
  /\ chat[u][a].pc = "store_user"
  /\ messageLog' = [messageLog EXCEPT ![u] =
                      Append(@, MessageRow(chat[u][a].convId, "user", chat[u][a].message))]
  /\ chat' = [chat EXCEPT ![u][a].pc = "load_history"]
  /\ UNCHANGED <<now, breakerGroup, storeGroup, req, cacheGroup, started, helper, search,
                 conversations>>

\* step 4: SELECT sender, content FROM messages WHERE conversation_id = $1
\* ORDER BY created_at ASC; the rows go to processQuery only
historyLoaded(u, a) ==
  /\ chat[u][a].pc = "load_history"
  /\ chat' = [chat EXCEPT ![u][a].pc = "process"]
  /\ UNCHANGED <<now, breakerGroup, storeGroup, req, cacheGroup, messageLog, started, helper,
                 search, conversations>>

\* step 5: orchestrator.processQuery returns a response, which leaves a
\* context in the store, or an exception of it ends in the catch
utteranceProcessed(u, a, c, ok) ==
  /\ chat[u][a].pc = "process"
  /\ IF ok /\ redisUp
       THEN /\ store' = RedisSet(u, c)
            /\ chat' = [chat EXCEPT ![u][a].pc = "store_reply"]
       ELSE /\ chat' = [chat EXCEPT ![u][a] = ChatFailed(@)]
            /\ UNCHANGED store
  /\ UNCHANGED <<now, breakerGroup, redisUp, op, lastSet, req, cacheGroup, messageLog, started,
                 helper, search, conversations>>

assistantMessageStored_BeforeReply(u, a) ==
  /\ chat[u][a].pc \in {"process", "store_reply"}
  /\ messageLog' = [messageLog EXCEPT ![u] =
                      Append(@, MessageRow(chat[u][a].convId, "assistant", <<"reply">>))]
  /\ chat' = [chat EXCEPT ![u][a] = [@ EXCEPT !.pc = "done", !.outcome = "ok"]]
  /\ UNCHANGED <<now, breakerGroup, storeGroup, req, cacheGroup, started, helper, search,
                 conversations>>

\* steps 6 and 7: INSERT INTO messages (...) VALUES ($1, 'assistant', $2, $3),
\* then res.json
assistantMessageStored(u, a) ==
  /\ chat[u][a].pc = "store_reply"
  /\ messageLog' = [messageLog EXCEPT ![u] =
                      Append(@, MessageRow(chat[u][a].convId, "assistant", <<"reply">>))]
  /\ chat' = [chat EXCEPT ![u][a] = [@ EXCEPT !.pc = "done", !.outcome = "ok"]]
  /\ UNCHANGED <<now, breakerGroup, storeGroup, req, cacheGroup, started, helper, search,
                 conversations>>

\* a query of the route is rejected by the database
queryFails(u, a) ==
  /\ chat[u][a].pc \in {"select", "end_old", "insert", "touch", "store_user", "load_history",
                        "store_reply"}
  /\ chat' = [chat EXCEPT ![u][a] = ChatFailed(@)]
  /\ UNCHANGED <<now, breakerGroup, storeGroup, req, cacheGroup, messageLog, started, helper,
                 search, conversations>>

\* the interval: UPDATE conversations SET status = 'ended' WHERE status =
\* 'active' AND NOW() - last_activity_at > INTERVAL '5 minutes'
cleanupIdleConversations ==
  /\ conversations' =
       [u \in Users |->
          [i \in 1..Len(conversations[u]) |->
             IF conversations[u][i].status = "active"
                  /\ CleanupDue(now - conversations[u][i].last_activity_at)
               THEN [conversations[u][i] EXCEPT !.status = "ended"]
               ELSE conversations[u][i]]]
  /\ UNCHANGED <<now, breakerGroup, storeGroup, req, cacheGroup, messageLog, started, helper,
                 search, chat>>

TickChat ==
  /\ now + ChatTickMs <= ChatEndTime
  /\ now' = now + ChatTickMs
  /\ UNCHANGED <<breakerGroup, storeGroup, req, otherGroup>>

\* the requests of a session one after the other
NextChat ==
  \/ \E u \in ChatUsers, raw \in RawMessages : chatRequest(u, 1, raw)
  \/ \E u \in ChatUsers : conversationSelected(u, 1)
  \/ \E u \in ChatUsers : oldConversationEnded(u, 1)
  \/ \E u \in ChatUsers : contextCleared(u, 1)
  \/ \E u \in ChatUsers : conversationInserted(u, 1)
  \/ \E u \in ChatUsers : conversationTouched(u, 1)
  \/ \E u \in ChatUsers : userMessageStored(u, 1)
  \/ \E u \in ChatUsers : historyLoaded(u, 1)
  \/ \E u \in ChatUsers, c \in WrittenContexts, ok \in BOOLEAN : utteranceProcessed(u, 1, c, ok)
  \/ \E u \in ChatUsers : assistantMessageStored(u, 1)
  \/ \E u \in ChatUsers : queryFails(u, 1)
  \/ cleanupIdleConversations
  \/ RedisGoesDown
  \/ RedisComesBack
  \/ TickChat

\* two requests of a session in flight together, with Redis and the
\* database answering
NextChatRace ==
  \/ \E u \in ChatUsers, a \in ChatTasks : chatRequest(u, a, <<"hi">>)
  \/ \E u \in ChatUsers, a \in ChatTasks : conversationSelected(u, a)
  \/ \E u \in ChatUsers, a \in ChatTasks : oldConversationEnded(u, a)
  \/ \E u \in ChatUsers, a \in ChatTasks : contextCleared(u, a)
  \/ \E u \in ChatUsers, a \in ChatTasks : conversationInserted(u, a)
  \/ \E u \in ChatUsers, a \in ChatTasks : conversationTouched(u, a)
  \/ \E u \in ChatUsers, a \in ChatTasks : userMessageStored(u, a)
  \/ \E u \in ChatUsers, a \in ChatTasks : historyLoaded(u, a)
  \/ \E u \in ChatUsers, a \in ChatTasks : utteranceProcessed(u, a, EmptyContext, TRUE)
  \/ \E u \in ChatUsers, a \in ChatTasks : assistantMessageStored(u, a)
  \/ cleanupIdleConversations
  \/ TickChat

Init ==
  /\ circuitBreakerState = "CLOSED"
  /\ failureCount = 0
  /\ lastFailureTime = 0
  /\ now = StartTime
  /\ calls = [c \in Calls |-> [pc |-> "idle", log |-> <<>>]]
  /\ failsSinceSuccess = 0
  /\ store = [u \in Users |-> NoKey]
  /\ redisUp = TRUE
  /\ op = [kind |-> "none", user |-> "u1", arg |-> EmptyContext, at |-> 0,
           raised |-> FALSE, result |-> EmptyContext]
  /\ lastSet = [u \in Users |-> [set |-> FALSE, ctx |-> EmptyContext, at |-> 0]]
  /\ req = [r \in Calls |-> IdleReq]
  /\ started = 0
  /\ helper = NoHelper
  /\ search = NoSearch
  /\ conversations = [u \in Users |-> <<>>]
  /\ chat = [u \in Users |-> [a \in ChatTasks |-> NoChat]]
  /\ cache = [k \in CacheKeys |-> NullValue]
  /\ populatedBy = [k \in CacheKeys |-> "none"]
  /\ check = NoCheck
  /\ messageLog = [u \in Users |-> <<>>]

NextStore ==
  \/ \E u \in Users : getUserContext(u)
  \/ \E u \in Users, c \in WrittenContexts : setUserContext(u, c)
  \/ \E u \in Users : clearUserContext(u)
  \/ RedisGoesDown
  \/ RedisComesBack
  \/ TickStore

SpecStore == Init /\ [][NextStore]_vars

SpecHelpers == Init /\ [][NextHelpers]_vars

SpecSearch == Init /\ [][NextSearch]_vars

SpecCache == Init /\ [][NextCache]_vars

SpecChat == Init /\ [][NextChat]_vars

SpecChatRace == Init /\ [][NextChatRace]_vars

(***************************************************************************)
(* Specification of processQuery: requests one after the other             *)
(***************************************************************************)
Requests == {1}

\* the session the requests of the model belong to
RequestUsers == {"u1"}

\* orchestrator.processQuery(userId, query, history) up to its first await
processQuery(r, u, q, h) ==
  /\ req[r].pc \in {"idle", "done"}
  /\ calls[r].pc = "idle"
  /\ LET rq == [IdleReq EXCEPT !.user = u, !.query = q, !.history = h]
     IN IF FastPath(q, h)
          THEN Advance(r, [rq EXCEPT !.pc = "route_get",
                                     !.intent = [primary |-> "general_question",
                                                 confidence |-> 85, isFollowUp |-> TRUE]])
          ELSE Advance(r, [rq EXCEPT !.pc = "classify"])
  /\ UNCHANGED <<now, storeGroup, otherGroup>>

\* a provider answers the pending completion call of r; when the next piece
\* stops at a call site again, callWithBreaker is re-entered with the breaker
\* just reset, so it goes on to the primary
ProviderReturns(r) ==
  /\ req[r].pc \in CallSites
  /\ calls[r].pc \in {"primary", "secondary"}
  /\ \E reply \in RepliesAt(req[r].pc) :
       LET rq == OnReturn([req[r] EXCEPT !.reply = reply.kind], reply)
       IN /\ req' = [req EXCEPT ![r] = rq]
          /\ IF rq.pc \in CallSites
               THEN /\ failureCount' = 0
                    /\ circuitBreakerState' = "CLOSED"
                    /\ failsSinceSuccess' = 0
                    /\ calls' = [calls EXCEPT ![r] = [pc |-> "primary", log |-> <<"primary">>]]
                    /\ UNCHANGED lastFailureTime
               ELSE IF calls[r].pc = "primary" THEN PrimaryOk(r) ELSE SecondaryOk(r)
  /\ UNCHANGED <<now, storeGroup, otherGroup>>

\* the primary fails for r: callWithBreaker falls back to the secondary
PrimaryRejects(r) ==
  /\ req[r].pc \in CallSites
  /\ PrimaryFail(r)
  /\ UNCHANGED <<now, storeGroup, req, otherGroup>>

\* the secondary fails too: callWithBreaker throws into the caller
ProviderUnavailable(r) ==
  /\ req[r].pc \in CallSites
  /\ SecondaryFail(r)
  /\ req' = [req EXCEPT ![r] = OnRaise(@, "ProviderUnavailable")]
  /\ UNCHANGED <<now, storeGroup, otherGroup>>

\* redis answers the pending get or set of r, or the command is rejected
\* because Redis is unreachable; no caller of the context helpers catches
RedisReplies(r) ==
  /\ req[r].pc \in {"route_get", "expect_set", "compat_get", "compat_set_ask",
                    "compat_set_clear", "final_set"}
  /\ LET rq == req[r]
         u == rq.user
         isSet == rq.pc \notin {"route_get", "compat_get"}
         next ==
           CASE ~ redisUp -> Throw(rq, "CacheUnavailable")
             [] rq.pc = "route_get" -> RouteAfterGet(rq, ContextOf(RedisGet(u)))
             [] rq.pc = "expect_set" -> Dispatch(rq)
             [] rq.pc = "compat_get" -> CompatAfterGet(rq, ContextOf(RedisGet(u)))
             [] rq.pc = "compat_set_ask" -> ToFinalSet(rq, rq.resp)
             [] rq.pc = "compat_set_clear" -> [rq EXCEPT !.pc = "compat_check"]
             [] rq.pc = "final_set" -> Finish(rq, rq.resp)
     IN /\ Advance(r, next)
        /\ store' = IF redisUp /\ isSet THEN RedisSet(u, rq.pending) ELSE store
  /\ UNCHANGED <<now, redisUp, op, lastSet, otherGroup>>

\* the product store (and the embedding service) answer r: found tells
\* whether rows came back; these lookups never throw into the handler
StoreReplies(r) ==
  /\ req[r].pc \in {"prod_db", "ts_parts", "compat_check"}
  /\ \E found \in BOOLEAN :
       LET rq == req[r]
           next ==
             CASE rq.pc = "prod_db" ->
                    IF found
                      THEN ToFinalSet(rq, Response("found_parts", FALSE, "some", TRUE,
                                                   <<"product_cards">>))
                      ELSE [rq EXCEPT !.pc = "prod_ai"]
               [] rq.pc = "ts_parts" ->
                    ToFinalSet(rq, DiagnoseResponse(rq, rq.resp.closing,
                                                    IF found THEN "some" ELSE "empty"))
               [] rq.pc = "compat_check" ->
                    ToFinalSet(rq, IF found
                                     THEN Response("is_compatible", FALSE, "empty", TRUE,
                                                   <<"add_to_cart">>)
                                     ELSE Response("not_compatible", FALSE, "empty", TRUE, <<>>))
       IN Advance(r, next)
  /\ UNCHANGED <<now, storeGroup, otherGroup>>

NextRequest ==
  \/ \E r \in Requests, u \in RequestUsers, q \in Queries, h \in Histories : processQuery(r, u, q, h)
  \/ \E r \in Requests : ProviderReturns(r)
  \/ \E r \in Requests : PrimaryRejects(r)
  \/ \E r \in Requests : ProviderUnavailable(r)
  \/ \E r \in Requests : RedisReplies(r)
  \/ \E r \in Requests : StoreReplies(r)
  \/ RedisGoesDown
  \/ RedisComesBack

SpecRequest == Init /\ [][NextRequest]_vars

(***************************************************************************)
(* Specification of two processQuery requests of one session in flight at  *)
(* the same time, with Redis and the providers answering                   *)
(***************************************************************************)
RaceRequests == {1, 2}

RaceQueries == { <<"PS11752778">>, <<"PS11752778", "WDT780SAEM1">> }

\* the tags the classifier answers with in this specification
RaceTags == {"compatibility_check", "order_support"}

\* a provider answers r; the classifier answers with one of RaceTags
RaceProviderReturns(r) ==
  /\ ProviderReturns(r)
  /\ req[r].pc = "classify"
       => req'[r].intent.primary \in RaceTags /\ ~ req'[r].intent.isFollowUp

NextRace ==
  \/ \E r \in RaceRequests, q \in RaceQueries : processQuery(r, "u1", q, <<>>)
  \/ \E r \in RaceRequests : RaceProviderReturns(r)
  \/ \E r \in RaceRequests : RedisReplies(r)
  \/ \E r \in RaceRequests : StoreReplies(r)

SpecRace == Init /\ [][NextRace]_vars

(***************************************************************************)
(* Specification of the breaker under concurrent callers                   *)
(***************************************************************************)
callWithBreaker(c) ==
  /\ calls[c].pc = "idle"
  /\ BreakerEnter(c)
  /\ UNCHANGED <<now, storeGroup, req, otherGroup>>

callDeepSeekResolves(c) == PrimaryOk(c) /\ UNCHANGED <<now, storeGroup, req, otherGroup>>

callDeepSeekRejects(c) == PrimaryFail(c) /\ UNCHANGED <<now, storeGroup, req, otherGroup>>

callOpenAIResolves(c) == SecondaryOk(c) /\ UNCHANGED <<now, storeGroup, req, otherGroup>>

callOpenAIRejects(c) == SecondaryFail(c) /\ UNCHANGED <<now, storeGroup, req, otherGroup>>

Tick ==
  /\ now + TickMs <= EndTime
  /\ now' = now + TickMs
  /\ UNCHANGED <<breakerGroup, storeGroup, req, otherGroup>>

Next ==
  \/ \E c \in Calls : callWithBreaker(c)
  \/ \E c \in Calls : callDeepSeekResolves(c)
  \/ \E c \in Calls : callDeepSeekRejects(c)
  \/ \E c \in Calls : callOpenAIResolves(c)
  \/ \E c \in Calls : callOpenAIRejects(c)
  \/ Tick

Spec == Init /\ [][Next]_vars

\* every attempt of a provider ends: axios rejects after its timeout (12 s for
\* the primary, 10 s for the secondary) when no answer came before
ProviderAttemptsEnd ==
  \A c \in Calls :
    /\ WF_vars(callDeepSeekResolves(c) \/ callDeepSeekRejects(c))
    /\ WF_vars(callOpenAIResolves(c) \/ callOpenAIRejects(c))

SpecLive == Spec /\ ProviderAttemptsEnd

(***************************************************************************)
(* Specification of the breaker when the primary provider is down and the  *)
(* secondary is up, the calls made one after the other                     *)
(***************************************************************************)
MaxSequentialCalls == 5

\* callWithBreaker is entered when no other call is in progress
callInSequence(c) ==
  /\ \A d \in Calls : calls[d].pc = "idle"
  /\ started < MaxSequentialCalls
  /\ BreakerEnter(c)
  /\ started' = started + 1
  /\ UNCHANGED <<now, storeGroup, req, cacheGroup, messageLog, helper, search, chatGroup>>

NextDegraded ==
  \/ \E c \in Calls : callInSequence(c)
  \/ \E c \in Calls : callDeepSeekRejects(c)
  \/ \E c \in Calls : callOpenAIResolves(c)
  \/ Tick

SpecDegraded == Init /\ [][NextDegraded]_vars

TypeOK ==
  /\ circuitBreakerState \in {"CLOSED", "OPEN", "HALF_OPEN"}
  /\ failureCount \in Nat
  /\ lastFailureTime \in Nat
  /\ now \in Nat
  /\ \A c \in Calls : calls[c].pc \in {"idle", "primary", "secondary"}


(***************************************************************************)
(* Steps of callWithBreaker, recognised from an activation's position      *)
(***************************************************************************)
Elapsed == now - lastFailureTime

EnterStep(c) == calls[c].pc = "idle" /\ calls'[c] # calls[c]

PrimaryFailStep(c) == calls[c].pc = "primary" /\ Has(calls'[c].log, "primary_failed")

PrimaryOkStep(c) == calls[c].pc = "primary" /\ Has(calls'[c].log, "primary_ok")

SecondaryOkStep(c) == calls[c].pc = "secondary" /\ Has(calls'[c].log, "secondary_ok")

SecondaryFailStep(c) == calls[c].pc = "secondary" /\ Has(calls'[c].log, "secondary_failed")

ReturnStep(c) ==
  /\ calls[c].pc # "idle"
  /\ calls'[c].pc = "idle"
  /\ Last(calls'[c].log) \in {"primary_ok", "secondary_ok"}

(***************************************************************************)
(* Claims on the circuit breaker                                           *)
(***************************************************************************)

\* C1 (as stated): the breaker becomes OPEN exactly at the primary failure
\* that brings the failure counter to the threshold, and once OPEN it stays
\* OPEN as long as the reset window since the last failure has not elapsed.
C1_StaysOpenUntilWindowElapses ==
  [][ /\ (circuitBreakerState # "OPEN" /\ circuitBreakerState' = "OPEN")
           => (\E c \in Calls : PrimaryFailStep(c)) /\ Tripped(failureCount')
      /\ (circuitBreakerState = "OPEN" /\ WithinResetWindow(Elapsed))
           => circuitBreakerState' = "OPEN" ]_vars

\* C1 (amended): the breaker becomes OPEN exactly at a primary failure that
\* leaves the counter at or above the threshold (from CLOSED: the failure that
\* brings it to 3, never before), and it leaves OPEN only for HALF_OPEN, when
\* a call enters with the reset window elapsed, or for CLOSED with counter 0,
\* when a provider attempt succeeds.
C1_OpensAtThreshold ==
  [][ /\ (circuitBreakerState # "OPEN" /\ circuitBreakerState' = "OPEN")
           => /\ \E c \in Calls : PrimaryFailStep(c)
              /\ failureCount' >= CIRCUIT_BREAKER_THRESHOLD
              /\ circuitBreakerState = "CLOSED" => failureCount' = CIRCUIT_BREAKER_THRESHOLD
      /\ \A c \in Calls : PrimaryFailStep(c) =>
              (circuitBreakerState' = "OPEN" <=> failureCount' >= CIRCUIT_BREAKER_THRESHOLD)
      /\ (circuitBreakerState = "OPEN" /\ circuitBreakerState' # "OPEN")
           => \/ /\ circuitBreakerState' = "HALF_OPEN"
                 /\ Elapsed >= CIRCUIT_BREAKER_RESET_TIME
                 /\ \E c \in Calls : EnterStep(c)
              \/ /\ circuitBreakerState' = "CLOSED"
                 /\ failureCount' = 0
                 /\ \E c \in Calls : PrimaryOkStep(c) \/ SecondaryOkStep(c) ]_vars

\* the breaker tripped at the third failure and is still OPEN after the window
C1_Witness ==
  /\ circuitBreakerState = "OPEN"
  /\ failureCount = CIRCUIT_BREAKER_THRESHOLD
  /\ Elapsed >= CIRCUIT_BREAKER_RESET_TIME
  /\ \E c \in Calls : Raised(c) /\ Last(calls[c].log) = "secondary_failed"

\* C2: a call that enters with the breaker OPEN and the reset window elapsed
\* sets HALF_OPEN and then attempts the primary; when the primary attempt of
\* that probing call succeeds, the breaker is CLOSED and the counter is 0.
C2_HalfOpenProbe ==
  [][ \A c \in Calls :
        /\ (EnterStep(c) /\ circuitBreakerState = "OPEN"
              /\ Elapsed >= CIRCUIT_BREAKER_RESET_TIME)
             => /\ circuitBreakerState' = "HALF_OPEN"
                /\ calls'[c].pc = "primary"
                /\ calls'[c].log = <<"half_open", "primary">>
        /\ (PrimaryOkStep(c) /\ Has(calls[c].log, "half_open"))
             => circuitBreakerState' = "CLOSED" /\ failureCount' = 0 ]_vars

\* a probe has gone through the primary and closed the breaker
C2_Witness ==
  \E c \in Calls :
    /\ calls[c].log = <<"half_open", "primary", "primary_ok">>
    /\ circuitBreakerState = "CLOSED"
    /\ failureCount = 0

\* C3: a call that enters with the breaker OPEN inside the reset window raises
\* at once, attempts no provider and leaves state, counter and timestamp alone.
C3_FastFail ==
  [][ \A c \in Calls :
        (EnterStep(c) /\ circuitBreakerState = "OPEN"
           /\ Elapsed < CIRCUIT_BREAKER_RESET_TIME)
          => /\ calls'[c].pc = "idle"
             /\ calls'[c].log = <<"circuit_open">>
             /\ ~ Has(calls'[c].log, "primary")
             /\ ~ Has(calls'[c].log, "secondary")
             /\ UNCHANGED <<circuitBreakerState, failureCount, lastFailureTime>> ]_vars

\* a call was fast-failed while the breaker is OPEN inside the window
C3_Witness ==
  \E c \in Calls :
    /\ FastFailed(c)
    /\ circuitBreakerState = "OPEN"
    /\ Elapsed < CIRCUIT_BREAKER_RESET_TIME

\* C4: within one call each provider is attempted at most once, the secondary
\* only after the primary failed, and a call that was not fast-failed raises
\* only after both attempts failed, primary first.
C4_FailsOnlyAfterBoth ==
  \A c \in Calls :
    /\ Count(calls[c].log, "primary") <= 1
    /\ Count(calls[c].log, "secondary") <= 1
    /\ \A i \in 1..Len(calls[c].log) :
         calls[c].log[i] = "secondary"
           => /\ i > 2
              /\ calls[c].log[i-1] = "primary_failed"
              /\ calls[c].log[i-2] = "primary"
    /\ (Raised(c) /\ ~ FastFailed(c))
         => \E pre \in {<<>>, <<"half_open">>} :
              calls[c].log =
                pre \o <<"primary", "primary_failed", "secondary", "secondary_failed">>

\* a call raised after both providers failed
C4_Witness ==
  \E c \in Calls :
    /\ Raised(c)
    /\ calls[c].log = <<"primary", "primary_failed", "secondary", "secondary_failed">>

\* C5: every primary failure adds exactly 1 to the counter, records the time,
\* opens the breaker when the counter is then at least 3, and goes on to one
\* attempt of the secondary, also when it trips the breaker.
C5_PrimaryFailure ==
  [][ \A c \in Calls :
        (calls[c].pc = "primary" /\ calls'[c].pc # "primary" /\ ~ PrimaryOkStep(c))
          => /\ failureCount' = failureCount + 1
             /\ lastFailureTime' = now
             /\ failureCount' >= CIRCUIT_BREAKER_THRESHOLD => circuitBreakerState' = "OPEN"
             /\ calls'[c].pc = "secondary"
             /\ calls'[c].log = calls[c].log \o <<"primary_failed", "secondary">>
             /\ Count(calls'[c].log, "secondary") = 1 ]_vars

\* the primary failure that tripped the breaker is followed by the fallback
C5_Witness ==
  \E c \in Calls :
    /\ calls[c].pc = "secondary"
    /\ circuitBreakerState = "OPEN"
    /\ failureCount >= CIRCUIT_BREAKER_THRESHOLD
    /\ lastFailureTime = now

\* C6: at the step in which a call returns a result, from the primary or from
\* the secondary, the counter is 0 and the breaker is CLOSED.
C6_ReturnResets ==
  [][ \A c \in Calls :
        ReturnStep(c) => failureCount' = 0 /\ circuitBreakerState' = "CLOSED" ]_vars

\* a half-open probe (counter at least 3 before) returned the fallback result
C6_Witness ==
  \E c \in Calls :
    /\ Returned(c)
    /\ calls[c].log = <<"half_open", "primary", "primary_failed", "secondary", "secondary_ok">>
    /\ failureCount = 0
    /\ circuitBreakerState = "CLOSED"

\* C7: under every interleaving the counter equals the number of primary
\* failures observed since the last provider success: no increment is lost.
C7_NoLostUpdate == failureCount = failsSinceSuccess

\* two calls are in their failure path at once and both failures are counted
C7_Witness ==
  /\ failureCount >= 2
  /\ \E c, d \in Calls : c # d /\ calls[c].pc = "secondary" /\ calls[d].pc = "secondary"

(***************************************************************************)
(* Claims on the session-context store                                     *)
(***************************************************************************)
GetStep(u) == op' # op /\ op'.kind = "get" /\ op'.user = u

SetStep(u) == op' # op /\ op'.kind = "set" /\ op'.user = u

SameSlots(c, d) == \A k \in Slots : Slot(c, k) = Slot(d, k)

\* C9: a get that returns, after a set of c for the same user and before that
\* write is one hour old, returns the slot values of c; a get after the hour
\* has passed, or with nothing written, or after a clear, returns {}.
C9_RoundTrip ==
  [][ \A u \in Users :
        (GetStep(u) /\ ~ op'.raised)
          => /\ (lastSet[u].set /\ now < lastSet[u].at + CONTEXT_TTL * 1000)
                  => SameSlots(op'.result, lastSet[u].ctx)
             /\ (~ lastSet[u].set \/ now > lastSet[u].at + CONTEXT_TTL * 1000)
                  => op'.result = EmptyContext ]_vars

\* a context holding an undefined and a null slot was read back later, inside the hour
C9_Witness ==
  /\ op.kind = "get"
  /\ ~ op.raised
  /\ lastSet[op.user].set
  /\ op.at > lastSet[op.user].at
  /\ op.at < lastSet[op.user].at + CONTEXT_TTL * 1000
  /\ \E k \in DOMAIN lastSet[op.user].ctx : lastSet[op.user].ctx[k] = Undefined
  /\ \E k \in DOMAIN op.result : op.result[k] = Null

\* C10: a set that returns stores exactly the slots of its argument for that
\* user, with an expiry one hour after the write, and changes no other user's
\* key; a get changes no key and no expiry.
C10_SetReplaces ==
  [][ \A u \in Users :
        /\ (SetStep(u) /\ ~ op'.raised)
             => /\ store'[u].present
                /\ SameSlots(JSONparse(store'[u].text), op'.arg)
                /\ store'[u].expireAt = now + CONTEXT_TTL * 1000
                /\ \A v \in Users \ {u} : store'[v] = store[v]
        /\ GetStep(u) => store' = store ]_vars

\* a later write for u1 replaced a context holding lastPart by one without it
\* and moved only u1's expiry
C10_Witness ==
  /\ op.kind = "set"
  /\ op.user = "u1"
  /\ ~ op.raised
  /\ op.arg = [lastIntent |-> Undefined, lastTopic |-> Null]
  /\ store["u1"].text = {<<"lastTopic", Null>>}
  /\ RedisLive("u2")
  /\ store["u1"].expireAt > store["u2"].expireAt


(***************************************************************************)
(* Claims about processQuery, checked under SpecRequest                    *)
(***************************************************************************)
\* C8: when the session cache is unreachable, reading the context yields the
\* empty context and writing it is dropped, so a processQuery request still
\* returns a response and never fails because of the cache
C8_CacheNeverFailsRequest ==
  \A r \in Requests :
    req[r].pc = "done" => /\ req[r].outcome = "response"
                          \/ req[r].error # "CacheUnavailable"


\* what get(u) would return now
StoredContext(u) == ContextOf(RedisGet(u))

\* the getUserContext of routeToAgents returns to request r
RouteStep(r) == req[r].pc = "route_get" /\ redisUp /\ req'[r] # req[r]

\* request r returns a response in this step
RespondStep(r) == req[r].pc # "done" /\ req'[r].pc = "done" /\ req'[r].outcome = "response"

\* C11: with expecting = model_number_for_compat stored and the follow-up
\* rule not applying, routeToAgents forces the intent to compatibility_check,
\* hands the compatibility handler the stored part followed by the utterance,
\* and the context stored when the request has responded has no active
\* expecting marker
C11_ExpectingRule ==
  [][\A r \in Requests :
       LET u == req[r].user
           context == StoredContext(u)
           flowContext == getConversationContext(req[r].history)
           lastPart == Slot(context, "lastPart")
       IN /\ ( /\ RouteStep(r)
               /\ Slot(context, "expecting") = "model_number_for_compat"
               /\ ~ (req[r].intent.isFollowUp /\ flowContext.topic = "troubleshooting") )
             => /\ req'[r].pc = "expect_set"
                /\ req'[r].rule = "expecting"
                /\ req'[r].intent.primary = "compatibility_check"
                /\ req'[r].query = (IF Truthy(lastPart) THEN <<lastPart>> ELSE <<>>) \o req[r].query
          /\ (req[r].pc = "expect_set" /\ redisUp /\ req'[r] # req[r])
             => /\ req'[r].pc = "compat_get"
                /\ req'[r].query = req[r].query
                /\ Slot(StoredContext(u)', "expecting") = Null
          /\ (req[r].rule = "expecting" /\ RespondStep(r))
             => Slot(StoredContext(u)', "expecting") # "model_number_for_compat"
    ]_vars

C11_Witness ==
  \E r \in Requests :
    /\ req[r].pc = "done" /\ req[r].outcome = "response" /\ req[r].rule = "expecting"
    /\ req[r].query = <<"PS11752778", "WDT780SAEM1">>
    /\ req[r].metadata.primary = "compatibility_check"
    /\ req[r].resp.message = "is_compatible"
    /\ RedisLive(req[r].user)
    /\ Slot(StoredContext(req[r].user), "expecting") = Null


\* C12: the follow-up rule comes first: when the intent carries isFollowUp
\* and the flow topic is troubleshooting, the request goes to the open-ended
\* handler whatever intent was classified and whatever marker is stored, and
\* the expecting rule is not applied in that request
C12_FollowUpFirst ==
  [][\A r \in Requests :
       LET flowContext == getConversationContext(req[r].history)
       IN /\ ( /\ RouteStep(r)
               /\ req[r].intent.isFollowUp
               /\ flowContext.topic = "troubleshooting" )
             => /\ req'[r].pc \in {"followup", "done"}
                /\ req'[r].pc = "done" => req'[r].error = "CircuitOpen"
                /\ req'[r].rule = "followup"
                /\ req'[r].intent = req[r].intent
                /\ req'[r].query = req[r].query
                /\ store' = store
          /\ (req[r].rule = "followup" /\ req'[r] # req[r] /\ req[r].pc # "done")
             => /\ req'[r].pc \in {"followup", "done"}
                /\ store' = store
                /\ RespondStep(r) => req'[r].resp.message = "ai_text"
    ]_vars

C12_Witness ==
  \E r \in Requests :
    /\ req[r].pc = "done" /\ req[r].outcome = "response" /\ req[r].rule = "followup"
    /\ req[r].metadata.primary = "product_search"
    /\ req[r].resp.message = "ai_text"
    /\ RedisLive(req[r].user)
    /\ Slot(StoredContext(req[r].user), "expecting") = "model_number_for_compat"


\* the context routeToAgents is to persist: previous slots + last intent + last topic
MergedOf(rq) == MergedContext(rq.context, rq.intent, getConversationContext(rq.history))

\* C13: after every request that returns a response, on every dispatch path
\* including the follow-up path, the store holds for that user the previous
\* slots merged with the last intent and the last topic of this request
C13_PersistsMergedContext ==
  [][\A r \in Requests :
       RespondStep(r) => /\ RedisLive(req[r].user)'
                         /\ SameSlots(StoredContext(req[r].user)', MergedOf(req[r]))
    ]_vars

\* the same on the paths that reach the last statement of routeToAgents: this
\* one holds, the follow-up path alone returns without the write
PersistsUnlessFollowUp ==
  [][\A r \in Requests :
       (RespondStep(r) /\ req[r].rule # "followup")
         => /\ RedisLive(req[r].user)'
            /\ SameSlots(StoredContext(req[r].user)', MergedOf(req[r]))
    ]_vars


\* C14: two-turn compatibility flow: after a request in which the
\* compatibility handler knows only the part, the context stored at the end
\* of the request carries lastPart = that part and
\* expecting = model_number_for_compat, so that the next request is forced
C14_AskModelLeavesMarker ==
  [][\A r \in Requests :
       (RespondStep(r) /\ req[r].resp.message = "ask_model_for_compat")
         => /\ RedisLive(req[r].user)'
            /\ Slot(StoredContext(req[r].user)', "lastPart") = req[r].part
            /\ Slot(StoredContext(req[r].user)', "expecting") = "model_number_for_compat"
    ]_vars

\* C15: the context of a user is cleared when a compatibility flow completes:
\* after a request in which the handler had both identifiers and resolved
\* the check, get(user) returns the empty context
C15_ResolvedClearsContext ==
  [][\A r \in Requests :
       (RespondStep(r) /\ req[r].resp.message \in {"is_compatible", "not_compatible"})
         => SameSlots(StoredContext(req[r].user)', EmptyContext)
    ]_vars


\* the tags that have a handler in the switch of routeToAgents
HandlerTags ==
  {"product_search", "compatibility_check", "troubleshooting", "installation_help",
   "order_support", "general_question"}

\* rq is where the handler of tag leaves a request that has just entered it
EnteredHandler(tag, rq) ==
  LET failedFast == rq.pc = "done" /\ rq.error = "CircuitOpen"
      asked(ms) == rq.pc = "final_set" /\ rq.resp.message \in ms
  IN CASE tag = "product_search" ->
            rq.pc \in {"prod_extract", "prod_db"} \/ asked({"ask_model_for_search"})
       [] tag = "compatibility_check" -> rq.pc = "compat_get"
       [] tag = "troubleshooting" -> rq.pc \in {"ts_solution", "ts_analyze"} \/ failedFast
       [] tag = "installation_help" ->
            rq.pc = "install" \/ asked({"ask_part_for_install"}) \/ failedFast
       [] tag = "order_support" ->
            \/ rq.pc = "order"
            \/ asked({"ask_order_number", "return_policy", "shipping_info"})
            \/ failedFast
       [] tag = "general_question" -> rq.pc = "general" \/ failedFast

\* C16: dispatch selects for every intent tag exactly the handler of that
\* tag, and an out_of_scope or unknown tag is answered by a fixed
\* out-of-scope response rather than by an error
C16_DispatchByTag ==
  [][\A r \in Requests :
       (RouteStep(r) /\ req'[r].rule = "none")
         => IF req[r].intent.primary \in HandlerTags
              THEN EnteredHandler(req[r].intent.primary, req'[r])
              ELSE /\ req'[r].outcome # "raised"
                   /\ req'[r].resp.message = "out_of_scope"
    ]_vars

\* the same for the six tags that have a handler: this one holds
DispatchByHandlerTag ==
  [][\A r \in Requests :
       (RouteStep(r) /\ req'[r].rule = "none" /\ req[r].intent.primary \in HandlerTags)
         => EnteredHandler(req[r].intent.primary, req'[r])
    ]_vars


\* the awaits of routeToAgents itself; every other await after classify is
\* inside a handler
OrchestratorAwaits == {"route_get", "expect_set", "final_set"}

\* an exception leaves a handler in this step: every exception after classify
\* except the orchestrator's own (its cache calls and its missing
\* out-of-scope responder)
HandlerThrows(r) ==
  /\ req[r].pc \notin {"idle", "done", "classify"}
  /\ req'[r] # req[r]
  /\ req'[r].error # "none"
  /\ ~ ( /\ req[r].pc \in OrchestratorAwaits
         /\ req'[r].error \in {"CacheUnavailable", "TypeError"} )

\* C17: whenever a handler raises, the orchestrator catches it and
\* processQuery returns a generic apologetic message with an empty product
\* list and an empty action list; processQuery never raises to its caller
C17_HandlerFailureCaught ==
  [][\A r \in Requests :
       HandlerThrows(r) => /\ req'[r].pc = "done"
                           /\ req'[r].outcome = "response"
                           /\ req'[r].resp.message = "apology"
                           /\ req'[r].resp.products = "empty"
                           /\ req'[r].resp.actions = <<>>
    ]_vars

\* a downstream call of a handler fails in this step: its completion call
\* (both providers down, or the circuit open) or its cache call
DownstreamFails(r) ==
  /\ req[r].pc \notin {"idle", "done", "classify"}
  /\ req'[r] # req[r]
  /\ \/ req[r].pc \in CallSites /\ SecondaryFailStep(r)
     \/ calls'[r] # calls[r] /\ calls'[r].pc = "idle" /\ Last(calls'[r].log) = "circuit_open"
     \/ req[r].pc \in {"compat_get", "compat_set_ask", "compat_set_clear"} /\ ~ redisUp

\* C18: every domain handler returns a response with a message and never
\* raises when its completion call or its store/cache call fails
C18_HandlersDegrade ==
  [][\A r \in Requests :
       DownstreamFails(r) => /\ req'[r].outcome # "raised"
                             /\ req'[r].resp.message # "none"
    ]_vars

\* the same for the product search handler, whose awaits are all caught: this
\* one holds
ProductSearchDegrades ==
  [][\A r \in Requests :
       (DownstreamFails(r) /\ req[r].intent.primary = "product_search" /\ req[r].rule = "none")
         => /\ req'[r].outcome # "raised"
            /\ req'[r].pc = "final_set" => req'[r].resp.message # "none"
    ]_vars


InputRequesting == {"input_prompt", "button_group", "next_steps"}

AsksInput(actions) == \E i \in 1..Len(actions) : actions[i] \in InputRequesting

\* C19: formatResponse appends a completion offer if and only if the
\* handler's actions hold no input-requesting action and its message holds a
\* closing phrase; no returned response holds both an input-requesting
\* action and a completion offer, and none holds more than one offer
C19_CompletionOffer ==
  [][\A r \in Requests :
       /\ (req[r].pc = "final_set" /\ RespondStep(r))
            => req'[r].resp.actions =
                 IF ~ AsksInput(req[r].resp.actions) /\ req[r].resp.closing
                   THEN Append(req[r].resp.actions, "conversation_completion")
                   ELSE req[r].resp.actions
       /\ RespondStep(r)
            => /\ Count(req'[r].resp.actions, "conversation_completion") <= 1
               /\ ~ ( /\ AsksInput(req'[r].resp.actions)
                      /\ Has(req'[r].resp.actions, "conversation_completion") )
    ]_vars

C19_Witness ==
  \E r \in Requests :
    /\ req[r].pc = "done" /\ req[r].outcome = "response"
    /\ req[r].resp.closing
    /\ req[r].resp.actions = <<"installation_guide", "conversation_completion">>


\* a provider answers the classification prompt of request r in this step
ClassifyAnswered(r) == req[r].pc = "classify" /\ req'[r].reply # "none"

\* C20: when the answer to the classification prompt cannot be parsed as
\* JSON, classify returns {primary: general_question, confidence: 0.5,
\* entities: {}} and does not raise (confidence in hundredths)
C20_UnparseableClassification ==
  [][\A r \in Requests :
       (ClassifyAnswered(r) /\ req'[r].reply = "garbage")
         => /\ req'[r].pc = "route_get"
            /\ req'[r].outcome # "raised"
            /\ req'[r].intent.primary = "general_question"
            /\ req'[r].intent.confidence = 50
            /\ ~ req'[r].intent.isFollowUp
    ]_vars

C20_Witness ==
  \E r \in Requests :
    /\ req[r].pc = "route_get"
    /\ req[r].reply = "garbage"
    /\ req[r].intent = [primary |-> "general_question", confidence |-> 50, isFollowUp |-> FALSE]

(***************************************************************************)
(* Classification                                                          *)
(***************************************************************************)
\* the step in which processQuery is called and runs up to its first await
ClassifyEntered(r) == req[r].pc \in {"idle", "done"} /\ req'[r] # req[r]

\* the most recent assistant turn of h holds troubleshooting steps
StepsJustGiven(h) ==
  \E i \in 1..Len(h) :
    /\ h[i].role = "assistant"
    /\ h[i].content \cap {"step", "troubleshoot"} # {}
    /\ \A j \in (i+1)..Len(h) : h[j].role # "assistant"

FollowUpIntent == [primary |-> "general_question", confidence |-> 85, isFollowUp |-> TRUE]

\* C21: a questioning utterance after an assistant turn with troubleshooting
\* steps is classified general_question with isFollowUp = true in the very
\* step that enters processQuery, without entering callWithBreaker: the
\* breaker state, the failure counter, the last-failure timestamp and the
\* activation of callWithBreaker stay as they were, whatever the breaker state.
C21_FastPathLeavesBreaker ==
  [][\A r \in Requests :
       (ClassifyEntered(r) /\ Questioning(req'[r].query) /\ StepsJustGiven(req'[r].history))
         => /\ req'[r].pc = "route_get"
            /\ req'[r].intent = FollowUpIntent
            /\ UNCHANGED <<circuitBreakerState, failureCount, lastFailureTime, calls>>]_vars

\* a follow-up was classified on the fast path while the breaker was OPEN
C21_Witness ==
  \E r \in Requests :
    /\ req[r].pc = "route_get"
    /\ req[r].intent = FollowUpIntent
    /\ req[r].reply = "none"
    /\ Questioning(req[r].query) /\ StepsJustGiven(req[r].history)
    /\ circuitBreakerState = "OPEN"
    /\ calls[r].pc = "idle"

\* C22: every intent classify hands to routeToAgents has a tag of the closed
\* set and a confidence between 0 and 1 (0..100 in hundredths).
C22_IntentInClosedSet ==
  \A r \in Requests :
    req[r].pc = "route_get"
      => /\ req[r].intent.primary \in IntentTags
         /\ req[r].intent.confidence \in 0..100

(***************************************************************************)
(* The breaker and the secondary provider                                  *)
(***************************************************************************)
\* C29: when the secondary provider fails, the failure counter, the
\* last-failure timestamp and the breaker state keep the values the preceding
\* primary failure left.
C29_SecondaryFailureUncounted ==
  [][\A c \in Calls :
       SecondaryFailStep(c)
         => UNCHANGED <<failureCount, lastFailureTime, circuitBreakerState>>]_vars

\* the third primary failure opened the breaker, the secondary failed as
\* well, and the breaker is as the primary failure left it
C29_Witness ==
  \E c \in Calls :
    /\ calls[c].pc = "idle"
    /\ Has(calls[c].log, "secondary_failed")
    /\ circuitBreakerState = "OPEN"
    /\ failureCount = CIRCUIT_BREAKER_THRESHOLD
    /\ lastFailureTime < now

\* C30: with the primary failing and the secondary succeeding on every
\* attempt, and the calls made one after the other: no call is fast-failed,
\* every call attempts the primary, the breaker is never OPEN, and after each
\* call it is CLOSED with the failure counter at 0.
C30_DegradedPrimaryNeverOpens ==
  /\ circuitBreakerState # "OPEN"
  /\ \A c \in Calls :
       /\ ~ Has(calls[c].log, "circuit_open")
       /\ calls[c].log # <<>> => calls[c].log[1] = "primary"
       /\ calls[c].pc = "idle" /\ calls[c].log # <<>>
            => calls[c].log = <<"primary", "primary_failed", "secondary", "secondary_ok">>
  /\ (started > 0 /\ \A c \in Calls : calls[c].pc = "idle")
       => circuitBreakerState = "CLOSED" /\ failureCount = 0

\* more calls than the threshold have been made at one instant, the primary
\* failed in each of them, and the next call is let through to the primary
C30_Witness ==
  /\ started > CIRCUIT_BREAKER_THRESHOLD + 1
  /\ now = StartTime
  /\ lastFailureTime = now
  /\ \E c \in Calls : calls[c].pc = "primary"
  /\ circuitBreakerState = "CLOSED"
  /\ failureCount = 0

(***************************************************************************)
(* The response envelope                                                   *)
(***************************************************************************)
\* a step of a request between its classification and its end
RoutingStep(r) ==
  /\ req[r].pc \notin {"idle", "done", "classify"}
  /\ req'[r] # req[r]
  /\ req'[r].outcome # "raised"

\* C24: every response processQuery returns has a message, a products list
\* and an actions list, the lists empty (but for the completion action) when
\* the handler gave none, and its metadata is the classified intent and
\* confidence, the intent replaced by compatibility_check when the expecting
\* rule fired.
C24_ResponseEnvelope ==
  [][\A r \in Requests :
       /\ RoutingStep(r)
            => /\ req'[r].intent.confidence = req[r].intent.confidence
               /\ req'[r].intent.primary =
                    IF req'[r].rule = "expecting" /\ req[r].rule # "expecting"
                      THEN "compatibility_check" ELSE req[r].intent.primary
       /\ RespondStep(r)
            => /\ req'[r].metadata = req[r].intent
               /\ req'[r].resp.message # "none"
               /\ req'[r].resp.products \in {"empty", "some"}
               /\ req'[r].resp.hasActions
               /\ req[r].rule = "expecting" => req'[r].metadata.primary = "compatibility_check"
       /\ (RespondStep(r) /\ req[r].pc = "final_set")
            => /\ req'[r].resp.message = req[r].resp.message
               /\ req[r].resp.products = "absent" => req'[r].resp.products = "empty"
               /\ req[r].resp.products # "absent"
                    => req'[r].resp.products = req[r].resp.products
               /\ req'[r].resp.actions \in
                    {req[r].resp.actions, Append(req[r].resp.actions, "conversation_completion")}
               /\ ~ req[r].resp.hasActions => req[r].resp.actions = <<>>
    ]_vars

\* a response whose handler gave neither products nor actions, returned
\* after the expecting rule replaced the classified intent
C24_Witness ==
  \E r \in Requests :
    /\ req[r].pc = "done" /\ req[r].outcome = "response"
    /\ req[r].rule = "expecting"
    /\ req[r].metadata.primary = "compatibility_check"
    /\ req[r].metadata.confidence = 95
    /\ req[r].resp.products = "empty"
    /\ req[r].resp.actions = <<>>

(***************************************************************************)
(* The pure helpers                                                        *)
(***************************************************************************)
\* the positions of the turns history.slice(-5) keeps
Recent(h) == {i \in 1..Len(h) : i > Len(h) - 5}

\* the most recent assistant turn among the recent turns of h holds steps
RecentStepsJustGiven(h) ==
  \E i \in Recent(h) :
    /\ h[i].role = "assistant"
    /\ h[i].content \cap {"step", "troubleshoot"} # {}
    /\ \A j \in Recent(h) : j > i => h[j].role # "assistant"

\* C23 as stated: the stage is initial exactly when the history is empty,
\* diagnostic_given exactly when the most recent assistant turn issued
\* troubleshooting steps, and ongoing in every other case.
C23_StageOfHistory ==
  helper.fn = "getConversationContext"
    => LET h == helper.history
           stage == helper.flow.stage
       IN /\ stage = "initial" <=> h = <<>>
          /\ stage = "diagnostic_given" <=> StepsJustGiven(h)
          /\ stage \in {"initial", "diagnostic_given", "ongoing"}

\* C23 amended: the stage is initial exactly when the last 5 turns of the
\* history hold no assistant turn (the empty history included),
\* diagnostic_given exactly when the most recent assistant turn among the
\* last 5 turns contains "step" or "troubleshoot", and ongoing otherwise.
C23_StageOfRecentTurns ==
  helper.fn = "getConversationContext"
    => LET h == helper.history
           stage == helper.flow.stage
       IN /\ stage = "initial" <=> \A i \in Recent(h) : h[i].role # "assistant"
          /\ stage = "diagnostic_given" <=> RecentStepsJustGiven(h)
          /\ stage \in {"initial", "diagnostic_given", "ongoing"}

\* steps were issued six turns ago and only user turns followed: initial
C23_Witness ==
  /\ helper.fn = "getConversationContext"
  /\ Len(helper.history) = 6
  /\ StepsJustGiven(helper.history)
  /\ ~ RecentStepsJustGiven(helper.history)
  /\ helper.flow.stage = "initial"

\* C25: the message list built for the primary and the one built for the
\* secondary are one system message, then the last min(5, n) turns of the
\* history in their order, then the new user turn as the last element.
C25_MessageShape ==
  helper.fn \in {"callDeepSeek", "callOpenAI"}
    => LET h == helper.history
           n == Len(h)
           k == IF n < 5 THEN n ELSE 5
           messages == helper.messages
       IN /\ Len(messages) = k + 2
          /\ messages[1].role = "system"
          /\ \A j \in 1..k : messages[1 + j] = h[n - k + j]
          /\ messages[k + 2] = [role |-> "user", content |-> helper.userMessage]
          /\ \A j \in 2..(k + 2) : messages[j].role # "system"

\* a history of six turns whose oldest turn differs from the next one is cut
\* to its last five turns in the list for the secondary
C25_Witness ==
  /\ helper.fn = "callOpenAI"
  /\ Len(helper.history) = 6
  /\ helper.history[1] # helper.history[2]
  /\ Len(helper.messages) = 7
  /\ helper.messages[2] = helper.history[2]

(***************************************************************************)
(* retry                                                                   *)
(***************************************************************************)
\* C26: an activation of retry with the default bound invokes fn at most 3
\* times; a success ends it with the result of that invocation and no
\* further invocation; the fixed delay is waited once after each failed
\* attempt but the last, so only between attempts; after the third failure
\* the third error is raised; and retry wraps only the parts query and the
\* embeddings request, no completion call.
C26_BoundedRetry ==
  /\ DOMAIN search.runs = RetrySites
  /\ RetrySites \cap CallSites = {}
  /\ \A site \in RetrySites :
       LET run == search.runs[site]
           failed == Len(run.errs)
       IN /\ run.invoked <= 3
          /\ run.outcome = "none" => run.invoked = 0 /\ failed = 0 /\ run.waited = 0
          /\ run.outcome = "pending"
               => run.invoked = failed + 1 /\ run.waited = failed * RETRY_DELAY
          /\ run.outcome = "waiting"
               => run.invoked = failed /\ failed < 3 /\ run.waited = failed * RETRY_DELAY
          /\ run.outcome = "returned"
               => /\ run.invoked = failed + 1
                  /\ run.value \in {"rows", "no rows"}
                  /\ run.waited = failed * RETRY_DELAY
          /\ run.outcome = "threw"
               => /\ run.invoked = 3 /\ failed = 3
                  /\ run.value = run.errs[3]
                  /\ run.waited = 2 * RETRY_DELAY

\* the parts query failed three times, the last time with another error than
\* before: retry raised the last error after two delays
C26_Witness ==
  LET run == search.runs["db.query"]
  IN /\ run.outcome = "threw"
     /\ Len(run.errs) = 3
     /\ run.errs[3] # run.errs[2]
     /\ run.value = run.errs[3]
     /\ run.waited = 2 * RETRY_DELAY
     /\ search.caught

(***************************************************************************)
(* Conversation turnover of the chat route                                 *)
(***************************************************************************)
\* the rows of u that are active
ActiveRows(u) == {i \in 1..Len(conversations[u]) : conversations[u][i].status = "active"}

\* u has no active conversation, or its latest one has been idle for more
\* than 5 minutes
TurnoverDue(u) ==
  \/ ActiveRows(u) = {}
  \/ \A i \in ActiveRows(u) : now - conversations[u][i].last_activity_at > 300000

\* the step in which the route decides, and the one in which it reaches the
\* processing of the utterance
DecideStep(u, a) == chat[u][a].pc = "select" /\ chat'[u][a].pc \notin {"select", "done"}

ProcessReached(u, a) == chat[u][a].pc # "store_user" /\ chat'[u][a].pc = "store_user"

\* C27: a chat request takes the turnover branch exactly when the user has no
\* active conversation or the latest active one has been idle for more than
\* 5 minutes; on that branch, when the processing of the utterance starts,
\* the old conversation (if any) is ended, the context of the user is
\* cleared and a new active conversation is the current one; on the other
\* branch the selected conversation is the current one, its last-activity
\* time is the present time and no step of the route changed the context.
C27_ConversationTurnover ==
  [][\A u \in ChatUsers, a \in ChatTasks :
       /\ DecideStep(u, a) => (chat'[u][a].turnover <=> TurnoverDue(u))
       /\ (ProcessReached(u, a) /\ chat[u][a].turnover)
            => LET old == chat[u][a].selected
                   new == chat'[u][a].convId
               IN /\ old # 0 => conversations'[u][old].status = "ended"
                  /\ StoredContext(u)' = EmptyContext
                  /\ ~ store'[u].present
                  /\ new = Len(conversations[u]) + 1
                  /\ Len(conversations'[u]) = new
                  /\ conversations'[u][new].status = "active"
                  /\ \A i \in 1..Len(conversations[u]) :
                       conversations'[u][i].status = "ended"
       /\ (ProcessReached(u, a) /\ ~ chat[u][a].turnover)
            => LET id == chat[u][a].selected
               IN /\ id # 0
                  /\ chat'[u][a].convId = id
                  /\ Len(conversations'[u]) = Len(conversations[u])
                  /\ conversations'[u][id].last_activity_at = now
       /\ (chat[u][a].pc \in {"select", "touch"} /\ chat'[u][a] # chat[u][a] /\ ~ chat'[u][a].turnover)
            => store'[u] = store[u]
    ]_vars

\* a conversation left idle for more than 5 minutes was replaced: the old
\* row is ended, the new one is active, no context is stored and the
\* utterance is about to be processed
C27_Witness ==
  \E u \in ChatUsers, a \in ChatTasks :
    /\ chat[u][a].pc = "store_user"
    /\ chat[u][a].turnover
    /\ chat[u][a].selected = 1
    /\ chat[u][a].convId = 2
    /\ conversations[u][1].status = "ended"
    /\ conversations[u][2].status = "active"
    /\ ~ store[u].present
    /\ now - conversations[u][1].last_activity_at > 300000

(***************************************************************************)
(* Two requests of one session in flight                                   *)
(***************************************************************************)
\* the awaits of setUserContext in routeToAgents and CompatibilityAgent.check
SetSites == {"expect_set", "compat_set_ask", "compat_set_clear", "final_set"}

\* the step in which Redis performs the pending setUserContext of r
WriteStep(r) == req[r].pc \in SetSites /\ redisUp /\ req'[r] # req[r]

\* C28: the requests of one session are not serialized, and the store
\* follows the last write: every write leaves exactly the context the
\* writing request held, whatever another request stored since that request
\* read, and nothing but a write changes the stored context.
C28_LastWriteWins ==
  [][/\ \A r \in RaceRequests :
          WriteStep(r)
            => /\ store'[req[r].user].text = JSONstringify(req[r].pending)
               /\ StoredContext(req[r].user)' = JSONparse(JSONstringify(req[r].pending))
     /\ \A u \in Users :
          store'[u] # store[u] => \E r \in RaceRequests : WriteStep(r) /\ req[r].user = u
    ]_vars

\* lost update: request a asked for the model and stored lastPart with the
\* expecting marker; request b, which had read the context before, then
\* stored its own merged copy; the stored context has b's lastIntent and
\* neither lastPart nor the marker, while a is still in flight
C28_Witness ==
  \E a, b \in RaceRequests :
    /\ a # b
    /\ req[a].user = req[b].user
    /\ req[a].pc = "final_set"
    /\ req[a].resp.message = "ask_model_for_compat"
    /\ req[a].part = "PS11752778"
    /\ req[b].pc = "done" /\ req[b].outcome = "response"
    /\ req[b].intent.primary = "order_support"
    /\ Slot(StoredContext(req[a].user), "lastIntent") = "order_support"
    /\ Slot(StoredContext(req[a].user), "lastPart") # "PS11752778"
    /\ Slot(StoredContext(req[a].user), "expecting") # "model_number_for_compat"

(***************************************************************************)
(* The breaker under concurrent calls                                      *)
(***************************************************************************)
\* C35: in every reachable state the breaker is CLOSED exactly when the
\* failure counter is below 3; OPEN and HALF_OPEN occur only with a counter
\* of at least 3.
C35_ClosedIffBelowThreshold ==
  /\ circuitBreakerState = "CLOSED" <=> failureCount < 3
  /\ circuitBreakerState \in {"OPEN", "HALF_OPEN"} => failureCount >= 3

\* two calls failed at the primary after the breaker had opened: the counter
\* is above the threshold and a later call is probing
C35_Witness ==
  /\ circuitBreakerState = "HALF_OPEN"
  /\ failureCount > 3
  /\ \E c \in Calls : calls[c].log = <<"half_open", "primary">>

\* C36: a call is fast-failed exactly when it enters with the breaker OPEN
\* inside the reset window; a call that enters while the breaker is HALF_OPEN
\* goes on to the primary like the probe, and leaves the state HALF_OPEN.
C36_OnlyOpenFastFails ==
  [][\A c \in Calls :
       EnterStep(c)
         => /\ calls'[c].log = <<"circuit_open">>
                 <=> (circuitBreakerState = "OPEN" /\ Elapsed < CIRCUIT_BREAKER_RESET_TIME)
            /\ calls'[c].log # <<"circuit_open">> => calls'[c].pc = "primary"
            /\ circuitBreakerState = "HALF_OPEN"
                 => /\ calls'[c] = [pc |-> "primary", log |-> <<"primary">>]
                    /\ circuitBreakerState' = "HALF_OPEN"]_vars

\* the probe and a call that arrived after it are at the primary together
C36_Witness ==
  /\ circuitBreakerState = "HALF_OPEN"
  /\ \E c, d \in Calls :
       /\ c # d
       /\ calls[c] = [pc |-> "primary", log |-> <<"half_open", "primary">>]
       /\ calls[d] = [pc |-> "primary", log |-> <<"primary">>]

\* C37: every primary failure, of a probe or of a call that was in flight
\* when the breaker opened, sets the last-failure timestamp to the present
\* time; with the breaker OPEN or HALF_OPEN it leaves the breaker OPEN, and the
\* failure of the secondary that follows changes nothing; the breaker goes
\* to HALF_OPEN only when a full window has passed since that timestamp.
C37_WindowFromLastFailure ==
  [][\A c \in Calls :
       /\ PrimaryFailStep(c)
            => /\ lastFailureTime' = now
               /\ circuitBreakerState \in {"OPEN", "HALF_OPEN"} => circuitBreakerState' = "OPEN"
       /\ (SecondaryFailStep(c) /\ circuitBreakerState = "OPEN")
            => circuitBreakerState' = "OPEN" /\ lastFailureTime' = lastFailureTime
       /\ (circuitBreakerState # "HALF_OPEN" /\ circuitBreakerState' = "HALF_OPEN")
            => now - lastFailureTime >= CIRCUIT_BREAKER_RESET_TIME]_vars

\* a probe failed at both providers: the breaker is OPEN again and the
\* window runs from the failure of the probe
C37_Witness ==
  \E c \in Calls :
    /\ calls[c] = [pc |-> "idle",
                   log |-> <<"half_open", "primary", "primary_failed",
                             "secondary", "secondary_failed">>]
    /\ circuitBreakerState = "OPEN"
    /\ lastFailureTime >= StartTime + CIRCUIT_BREAKER_RESET_TIME
    /\ Elapsed < CIRCUIT_BREAKER_RESET_TIME

\* C39: when every attempt of a provider ends, every call ends, returning or
\* raising, after at most one attempt of the primary and one of the
\* secondary; entering the breaker is one step that waits for nothing.
C39_CallsTerminate ==
  /\ \A c \in Calls : (calls[c].pc # "idle") ~> (calls[c].pc = "idle")
  /\ [](\A c \in Calls : /\ Count(calls[c].log, "primary") <= 1
                         /\ Count(calls[c].log, "secondary") <= 1)
  /\ [][\A c \in Calls : EnterStep(c) => calls'[c].pc \in {"idle", "primary"}]_vars

\* a call ended by raising with the breaker already open, after one attempt
\* of each provider
C39_Witness ==
  \E c \in Calls :
    /\ Raised(c)
    /\ Count(calls[c].log, "primary") = 1
    /\ Count(calls[c].log, "secondary") = 1
    /\ Last(calls[c].log) = "secondary_failed"
    /\ failureCount > CIRCUIT_BREAKER_THRESHOLD

(***************************************************************************)
(* The fast path of classify and the flow analyzer                         *)
(***************************************************************************)
\* C31: an intent that classify gave on its fast path (no provider answered)
\* comes with a history for which getConversationContext reports the topic
\* troubleshooting, so that the follow-up rule of routeToAgents applies.
C31_FastPathAgreesWithFlow ==
  \A r \in Requests :
    (req[r].pc = "route_get" /\ req[r].reply = "none" /\ req[r].intent.isFollowUp)
      => /\ getConversationContext(req[r].history).topic = "troubleshooting"
         /\ FollowUpApplies(req[r].intent, getConversationContext(req[r].history))

\* the topic the rule table gives for the content of an assistant turn
RuleTopic(content) ==
  IF content \cap {"step", "troubleshoot"} # {} THEN "troubleshooting"
  ELSE IF content \cap {"compatible", "model"} # {} THEN "compatibility"
  ELSE IF "install" \in content THEN "installation"
  ELSE IF {"part", "$"} \subseteq content THEN "product_recommendation"
  ELSE Null

\* C32: the topic getConversationContext returns is the one the ordered rule
\* table (troubleshooting, compatibility, installation, product
\* recommendation, else none) gives for the most recent assistant turn among
\* the last 5 turns, and none when there is no such turn; the application
\* changes nothing but its result, its argument included.
C32_TopicByRuleTable ==
  [][(helper.fn = "called" /\ helper'.fn = "getConversationContext")
       => LET h == helper.history
              asst == {i \in Recent(h) : h[i].role = "assistant"}
              last == CHOOSE i \in asst : \A j \in asst : j <= i
          IN /\ helper'.flow.topic = IF asst = {} THEN Null ELSE RuleTopic(h[last].content)
             /\ helper'.flow = getConversationContext(h)
             /\ helper'.history = h
             /\ UNCHANGED <<now, breakerGroup, storeGroup, req, cacheGroup, messageLog, started, search, chatGroup>>
    ]_vars

\* an assistant turn that matches every rule is read as troubleshooting
C32_Witness ==
  /\ helper.fn = "getConversationContext"
  /\ Len(helper.history) = 2
  /\ helper.history[2].role = "assistant"
  /\ helper.history[2].content = RuleWords
  /\ helper.flow.topic = "troubleshooting"

(***************************************************************************)
(* The compatibility handler                                               *)
(***************************************************************************)
\* C33: once utterance, history and saved context are merged, the handler
\* asks for both identifiers when it knows neither, for the model when it
\* knows the part only, for the part when it knows the model only, and
\* resolves the check when it knows both; and the context it stores when it
\* asks for one identifier names the awaited slot in its expecting marker and
\* holds the known identifier in its slot.
C33_CompatOutcomes ==
  [][\A r \in Requests :
       /\ (req[r].pc = "compat_get" /\ redisUp /\ req'[r] # req[r])
            => LET havePart == Truthy(req'[r].part)
                   haveModel == Truthy(req'[r].model)
               IN /\ (~ havePart /\ ~ haveModel)
                       => req'[r].resp.message = "ask_part_and_model"
                  /\ (havePart /\ ~ haveModel)
                       => /\ req'[r].pc = "compat_set_ask"
                          /\ req'[r].resp.message = "ask_model_for_compat"
                  /\ (~ havePart /\ haveModel)
                       => /\ req'[r].pc = "compat_set_ask"
                          /\ req'[r].resp.message = "ask_part_for_compat"
                  /\ (havePart /\ haveModel) => req'[r].pc = "compat_set_clear"
       /\ (req[r].pc = "compat_set_ask" /\ redisUp /\ req'[r] # req[r])
            => LET stored == StoredContext(req[r].user)'
               IN /\ req[r].resp.message = "ask_model_for_compat"
                       => /\ Slot(stored, "expecting") = "model_number_for_compat"
                          /\ Slot(stored, "lastPart") = req[r].part
                  /\ req[r].resp.message = "ask_part_for_compat"
                       => /\ Truthy(Slot(stored, "expecting"))
                          /\ Slot(stored, "expecting") # "model_number_for_compat"
                          /\ Slot(stored, "lastModel") = req[r].model
    ]_vars


\* the step in which a product search, or a compatibility lookup, returns
SearchReturns == search' # search /\ search'.pc = "done"

CheckReturns == check' # check /\ check'.pc = "done"

\* C34: cached lookups are transparent. A product search and a compatibility
\* lookup answered from the cache return what the store lookup that wrote the
\* entry returned; with Redis unreachable a lookup is not answered from the
\* cache and returns what the store's replies give with an empty cache.
C34_CachedLookupsTransparent ==
  [][/\ (SearchReturns /\ search'.hit) => search'.products = populatedBy[search'.key]
     /\ (CheckReturns /\ check'.hit)
          => check'.result = populatedBy[CompatKey(check'.partNumber, check'.modelNumber)]
     /\ (SearchReturns /\ ~ redisUp) => ~ search'.hit
     /\ (CheckReturns /\ ~ redisUp)
          => ~ check'.hit /\ (check.pc = "cache_set" => check'.result = CompatResult(check))
    ]_vars


\* C38: at every moment a user has at most one conversation with status
\* active, also while two chat requests of the user are in flight and the
\* idle cleanup runs between their steps.
C38_OneActiveConversation ==
  \A u \in Users : Cardinality(ActiveRows(u)) <= 1

\* the position of a chat request between its INSERT of the user turn and
\* its INSERT of the reply
AwaitingReply == {"load_history", "process", "store_reply"}

\* the last row of the log of u is the user turn of the request a
UserTurnIsLast(u, a) ==
  /\ messageLog[u] # <<>>
  /\ messageLog[u][Len(messageLog[u])]
       = MessageRow(chat[u][a].convId, "user", chat[u][a].message)

\* C40: the conversation log is append-only and ordered per request. Every
\* step leaves the rows of the log in place and adds at most one row at the
\* end. A request with a non-empty message adds its user turn before the
\* utterance is processed and its assistant turn, in the same conversation
\* and right after the user turn, only once process has returned a response;
\* a request that fails after its user turn leaves that turn as the last row,
\* without a reply. A request whose message is empty after trimming is
\* rejected and changes neither the log, nor the conversations, nor the
\* session context; a request is rejected only for such a message.
C40_AppendOnlyLog ==
  [][/\ \A u \in ChatUsers :
          LET old == messageLog[u]
              new == messageLog'[u]
              added == new[Len(new)]
          IN /\ Len(new) \in {Len(old), Len(old) + 1}
             /\ SubSeq(new, 1, Len(old)) = old
             /\ (Len(new) = Len(old) + 1 /\ added.sender = "user")
                  => \E a \in ChatTasks :
                       /\ chat[u][a].pc = "store_user" /\ chat'[u][a].pc = "load_history"
                       /\ added = MessageRow(chat[u][a].convId, "user", chat[u][a].message)
                       /\ chat[u][a].message # <<>>
             /\ (Len(new) = Len(old) + 1 /\ added.sender # "user")
                  => \E a \in ChatTasks :
                       /\ chat[u][a].pc = "store_reply" /\ chat'[u][a].outcome = "ok"
                       /\ UserTurnIsLast(u, a)
                       /\ added.sender = "assistant"
                       /\ added.conversation_id = chat[u][a].convId
     /\ \A u \in ChatUsers, a \in ChatTasks :
          LET ch == chat[u][a]
              ch2 == chat'[u][a]
          IN /\ (ch.pc # "process" /\ ch2.pc = "process") => UserTurnIsLast(u, a)
             /\ (ch.pc # "store_reply" /\ ch2.pc = "store_reply") => ch.pc = "process"
             /\ (ch.pc \in AwaitingReply /\ ch2.outcome = "error")
                  => UNCHANGED messageLog /\ UserTurnIsLast(u, a)
             /\ (ch2 # ch /\ ch2.outcome = "rejected")
                  => /\ ch2.message = <<>>
                     /\ UNCHANGED <<messageLog, conversations, store>>
             /\ (ch.pc \in {"idle", "done"} /\ ch2.pc = "select")
                  => /\ ch2.message # <<>>
                     /\ \A i \in {1, Len(ch2.message)} : ch2.message[i] # " "
     /\ \A raw \in RawMessages :
          Trim(raw) = <<>> <=> \A i \in 1..Len(raw) : raw[i] = " "
    ]_vars

\* a request failed in processing after one complete exchange: the log holds
\* the exchange and then the user turn that got no reply
C40_Witness ==
  \E u \in ChatUsers :
    /\ chat[u][1].outcome = "error"
    /\ Len(messageLog[u]) = 3
    /\ messageLog[u][2].sender = "assistant"
    /\ messageLog[u][3] = MessageRow(chat[u][1].convId, "user", <<"hi">>)

\* a request with a message of white space only was rejected after one
\* complete exchange, which is still all the log holds
C40_WitnessRejected ==
  \E u \in ChatUsers :
    /\ chat[u][1].outcome = "rejected"
    /\ Len(messageLog[u]) = 2
    /\ store[u].present

=============================================================================
